---- MODULE Spec2Model ----
(***************************************************************************)
(* The observe-think-act loop of android_controller.agent.Agent, with the  *)
(* tool dispatcher (android_controller.tools.ToolExecutor) it drives.      *)
(*                                                                         *)
(* Conventions.  A Python str is a sequence of text fragments (tokens);    *)
(* the sentinel prefixes are split exactly where the code splits them:     *)
(* "TASK_COMPLETE:" and the blank that follows it are two fragments, so    *)
(* that startswith("TASK_COMPLETE:") and replace("TASK_COMPLETE: ", "")    *)
(* are different tests, as in the code.  Durations are in tenths of a      *)
(* second.  The model provider and the device are the environment: their   *)
(* answers are chosen with \E from the finite catalogues below.            *)
(*                                                                         *)
(* Spec and FairSpec are the agent loop.  GestureSpec is the loop in front  *)
(* of a provider that asks for tap sequences, swipes and waits; DumpSpec   *)
(* the loop on a device whose hierarchy dump may fail or be garbled;       *)
(* InterruptSpec adds a user who may press Ctrl-C.  LibSpec calls the      *)
(* functions of android_controller.grid and android_controller             *)
(* .ui_hierarchy, and the executor's scaling, once each on an input drawn  *)
(* from a bounded set.                                                     *)
(***************************************************************************)
EXTENDS Integers, Sequences, FiniteSets, TLC

VARIABLES
    max_iterations,   \* Agent.max_iterations (configuration)
    max_images,       \* Agent.max_images (configuration)
    pc,               \* position of run(): idle, loop, think, attempt, act, dispatch, check, done
    objective,        \* argument of the current run()
    iteration,        \* loop variable of run()
    message_history,  \* Agent.message_history
    task_finished,    \* Agent._task_finished
    task_result,      \* Agent._task_result (None or a str)
    observation,      \* the dict returned by _observe() in this iteration
    attempt,          \* loop variable of _think()
    response,         \* tool calls of the response returned by _think()
    callIdx,          \* position of _act() in the tool calls (1-based)
    original_size,    \* ToolExecutor.original_size
    resized_size,     \* ToolExecutor.resized_size
    outcome,          \* how the last run() ended: none, returned, raised
    retval,           \* value returned (or name of the exception raised) by run()
    sent,             \* the messages= argument of the latest litellm.completion call
    events,           \* what the current _think() did, in order: sleeps and completion calls
    batch,            \* the dispatches of the current iteration, in order
    device,           \* what the handlers did during the current run(): adb shell commands, sleeps
    stats,            \* counters of the current run(), and what the last hierarchy dump gave
    budget,           \* what the environment may still do: runs, tool calls, rate limits
    probe,            \* a library function called on its own: its input and its result
    mcp               \* the MCP server and the CLI: requests in flight, replies, the screen

vars == <<max_iterations, max_images, pc, objective, iteration, message_history,
          task_finished, task_result, observation, attempt, response, callIdx,
          original_size, resized_size, outcome, retval, sent, events, batch, device,
          stats, budget, probe, mcp>>

----------------------------------------------------------------------------
(* Bounds of the model *)

MaxIterations == 3      \* max_iterations ranges over 0..MaxIterations
MaxImages == 2          \* max_images ranges over 0..MaxImages
MaxToolCalls == 2       \* tool calls the provider returns in one run, all responses together
MaxRateLimits == 4      \* rate-limit failures the provider raises in one run
MaxColumn == 860        \* column indices (and pixel abscissas) range over 0..MaxColumn
MaxCellColumn == 30     \* cells handed to the converters have columns 0..MaxCellColumn
MaxCellRow == 12        \* and rows 0..MaxCellRow
MaxCellSize == 3        \* cell sizes range over 1..MaxCellSize, and CELL_SIZE

(* Program constants *)

max_retries == 3
base_delay == 5
CELL_SIZE == 40
max_size == 1024

\* Python None where a str is expected, and where a size tuple is expected
None == <<"<None>">>
NoSize == <<>>

----------------------------------------------------------------------------
(* Python str operations on fragment sequences *)

\* Op applied to the value of e, which is computed once
Apply(Op(_), e) == CHOOSE v \in {Op(x) : x \in {e}} : TRUE

\* s.startswith(p)
StartsWith(s, p) == Len(s) >= Len(p) /\ SubSeq(s, 1, Len(p)) = p

\* True when pat occurs in s at position i
OccursAt(s, pat, i) == i + Len(pat) - 1 <= Len(s) /\ SubSeq(s, i, i + Len(pat) - 1) = pat

\* s.replace(pat, rep): every non-overlapping occurrence, scanning left to right
RECURSIVE ReplaceFrom(_, _, _, _)
ReplaceFrom(s, pat, rep, i) ==
    IF i > Len(s) THEN <<>>
    ELSE IF OccursAt(s, pat, i) THEN rep \o ReplaceFrom(s, pat, rep, i + Len(pat))
    ELSE <<s[i]>> \o ReplaceFrom(s, pat, rep, i + 1)

Replace(s, pat, rep) == ReplaceFrom(s, pat, rep, 1)

\* index of the first occurrence of fragment t in s, 0 when absent (str.find)
RECURSIVE FindFrom(_, _, _)
FindFrom(s, t, i) ==
    IF i > Len(s) THEN 0 ELSE IF s[i] = t THEN i ELSE FindFrom(s, t, i + 1)

Find(s, t) == FindFrom(s, t, 1)

\* s.split(t)[0]
SplitFirst(s, t) == IF Find(s, t) = 0 THEN s ELSE SubSeq(s, 1, Find(s, t) - 1)

\* sep.join(parts), parts being a sequence of strings
RECURSIVE Join(_, _)
Join(parts, sep) ==
    IF parts = <<>> THEN <<>>
    ELSE IF Len(parts) = 1 THEN parts[1]
    ELSE parts[1] \o <<sep>> \o Join(Tail(parts), sep)

\* seconds to tenths of a second
Seconds(n) == n * 10

Max(a, b) == IF a >= b THEN a ELSE b

RECURSIVE Pow2(_)
Pow2(n) == IF n = 0 THEN 1 ELSE 2 * Pow2(n - 1)

----------------------------------------------------------------------------
(* Coordinate engine: android_controller.grid *)

Letters == <<"A", "B", "C", "D", "E", "F", "G", "H", "I", "J", "K", "L", "M",
             "N", "O", "P", "Q", "R", "S", "T", "U", "V", "W", "X", "Y", "Z">>
LowerLetters == <<"a", "b", "c", "d", "e", "f", "g", "h", "i", "j", "k", "l", "m",
                  "n", "o", "p", "q", "r", "s", "t", "u", "v", "w", "x", "y", "z">>
Digits == <<"0", "1", "2", "3", "4", "5", "6", "7", "8", "9">>

\* the character tables: c.isalpha(), c.isdigit(), c.upper(), ord(c) - ord('A'), int(c)
LetterOrd == [c \in {Letters[i] : i \in 1..Len(Letters)} |->
                 (CHOOSE i \in 1..Len(Letters) : Letters[i] = c) - 1]
LowerOrd == [c \in {LowerLetters[i] : i \in 1..Len(LowerLetters)} |->
                (CHOOSE i \in 1..Len(LowerLetters) : LowerLetters[i] = c) - 1]
DigitOrd == [c \in {Digits[i] : i \in 1..Len(Digits)} |->
                (CHOOSE i \in 1..Len(Digits) : Digits[i] = c) - 1]

\* str.upper() of one character
Upper(c) == IF c \in DOMAIN LowerOrd THEN Letters[LowerOrd[c] + 1] ELSE c

IsAlpha(c) == c \in DOMAIN LetterOrd \/ c \in DOMAIN LowerOrd
IsDigit(c) == c \in DOMAIN DigitOrd
\* ord(c) - ord('A') and int(c)
OrdFromA(c) == LetterOrd[c]
DigitVal(c) == DigitOrd[c]

\* cell.upper()
UpperStr(s) == [i \in 1..Len(s) |-> Upper(s[i])]

\* col_str and row_str of the parse loop: "if char.isalpha() ... elif char.isdigit()"
IsRowChar(c) == ~IsAlpha(c) /\ IsDigit(c)
AlphaPart(s) == SelectSeq(UpperStr(s), IsAlpha)
DigitPart(s) == SelectSeq(UpperStr(s), IsRowChar)

\* int(row_str)
RECURSIVE ParseInt(_)
ParseInt(s) == IF s = <<>> THEN 0 ELSE ParseInt(SubSeq(s, 1, Len(s) - 1)) * 10 + DigitVal(s[Len(s)])

\* the base-26 column parse of grid_cell_to_pixels (col_idx before and after "-= 1")
RECURSIVE ColumnNumber(_)
ColumnNumber(s) ==
    IF s = <<>> THEN 0
    ELSE ColumnNumber(SubSeq(s, 1, Len(s) - 1)) * 26 + (OrdFromA(s[Len(s)]) + 1)

ColumnIndex(col_str) == ColumnNumber(col_str) - 1

\* variant: the parts of a cell are not checked
CellFormatUnchecked(cell) == TRUE

\* grid_cell_to_pixels raises ValueError unless both parts are non-empty
CellFormatValid(cell) == AlphaPart(cell) # <<>> /\ DigitPart(cell) # <<>>

\* int(a / b) for b > 0: int() cuts the fraction off, towards zero
TruncDiv(a, b) == IF a >= 0 THEN a \div b ELSE -((-a) \div b)

\* variant: the left (top) edge of the cell instead of its center
CellEdge(idx, cell_size) == idx * cell_size

\* int((idx + 0.5) * cell_size): (2 idx + 1) cell_size / 2, cut off towards zero
CellCenter(idx, cell_size) == TruncDiv((2 * idx + 1) * cell_size, 2)

grid_cell_to_pixels(cell, cell_size) ==
    <<CellCenter(Apply(ColumnIndex, AlphaPart(cell)), cell_size),
      CellCenter(Apply(ParseInt, DigitPart(cell)) - 1, cell_size)>>

\* chr(ord('A') + k) for k in 0..57: the ASCII characters from "A" to "z" (the
\* grave accent, chr(96), is written "<grave>")
AsciiFromA == Letters \o <<"[", "\\", "]", "^", "_", "<grave>">> \o LowerLetters
ChrFromA(k) == AsciiFromA[k + 1]

\* get_column_label(col)
get_column_label(col) ==
    IF col < 26 THEN <<ChrFromA(col)>>
    ELSE <<ChrFromA(col \div 26 - 1), ChrFromA(col % 26)>>

\* str(n) for n >= 0, one character per fragment
RECURSIVE Str(_)
Str(n) == IF n < 10 THEN <<Digits[n + 1]>> ELSE Str(n \div 10) \o <<Digits[(n % 10) + 1]>>

\* pixels_to_grid_cell(x, y, cell_size)
pixels_to_grid_cell(x, y, cell_size) ==
    get_column_label(x \div cell_size) \o Str((y \div cell_size) + 1)

----------------------------------------------------------------------------
(* Tool dispatcher: android_controller.tools.ToolExecutor *)

\* keys of ToolExecutor._tool_map
ToolNames == {"tap", "tap_sequence", "swipe", "input_text", "press_home", "press_back",
              "press_enter", "press_recent_apps", "launch_app", "wait",
              "task_complete", "task_impossible"}

\* variant: the scale is applied the wrong way round, resized / original
ScaleInverted(x, original, resized) == TruncDiv(x * resized, original)

\* int(x * (original / resized)) of _cell_to_device_pixels
ScaleToDevice(x, original, resized) == TruncDiv(x * original, resized)

\* _cell_to_device_pixels with the executor's stored sizes
cell_to_device_pixels(cell, orig, resz) ==
    LET Scaled(p) ==
            IF orig # NoSize /\ resz # NoSize
            THEN <<ScaleToDevice(p[1], orig[1], resz[1]),
                   ScaleToDevice(p[2], orig[2], resz[2])>>
            ELSE p
    IN Apply(Scaled, grid_cell_to_pixels(cell, CELL_SIZE))

\* The value of a numeric parameter as json.loads delivers it: a number (an int
\* or a float, held in thousandths) or a string (one character per fragment)
IntVal(n) == [type |-> "int", milli |-> n * 1000, text |-> <<>>]
FloatVal(thousandths) == [type |-> "float", milli |-> thousandths, text |-> <<>>]
StrVal(s) == [type |-> "str", milli |-> 0, text |-> s]

(* The tool calls the model provider may put in a response.  A call is named by
   a key of the catalogue; CallName and CallArgs give its function name and its
   decoded arguments (a mapping from parameter names to values). *)
ToolCalls == {"done", "done_empty", "done_nested", "impossible", "tap_E10", "tap_10",
              "open_camera", "tap_badjson", "home_badjson",
              "seq_E10_B3", "seq_E10_7_B3", "seq_text_delay", "swipe_up", "swipe_text",
              "swipe_E10_X", "wait_text", "wait_abc",
              "done_badjson", "done_extra", "type_sentinel", "launch_sentinel",
              "sentinel_tool", "back", "seq_empty", "seq_E10_B3_X"}

CallName(k) ==
    CASE k \in {"done", "done_empty", "done_nested", "done_badjson", "done_extra"}
             -> "task_complete"
      [] k = "impossible" -> "task_impossible"
      [] k \in {"tap_E10", "tap_10", "tap_badjson"} -> "tap"
      [] k = "home_badjson" -> "press_home"
      [] k \in {"seq_E10_B3", "seq_E10_7_B3", "seq_text_delay", "seq_empty", "seq_E10_B3_X"}
             -> "tap_sequence"
      [] k \in {"swipe_up", "swipe_text", "swipe_E10_X"} -> "swipe"
      [] k \in {"wait_text", "wait_abc"} -> "wait"
      [] k = "type_sentinel" -> "input_text"
      [] k = "launch_sentinel" -> "launch_app"
      [] k = "sentinel_tool" -> "TASK_COMPLETE:"
      [] k = "back" -> "press_back"
      [] OTHER -> k

CallArgs(k) ==
    CASE k \in {"done", "done_badjson"} -> [summary |-> <<"Opened settings">>]
      [] k = "done_extra" -> [summary |-> <<"Opened settings">>,
                              result |-> <<"TASK_COMPLETE:", " ", "Opened settings">>]
      [] k = "type_sentinel" -> [text |-> <<"TASK_COMPLETE:", " ", "Opened settings">>]
      [] k = "launch_sentinel" -> [package |-> <<"TASK_IMPOSSIBLE:", " ", "no such app">>]
      [] k = "sentinel_tool" -> [summary |-> <<"Opened settings">>]
      [] k = "done_empty" -> [summary |-> <<>>]
      [] k = "done_nested" -> [summary |-> <<"TASK_COMPLETE:", " ", "Opened settings">>]
      [] k = "impossible" -> [reason |-> <<"App not installed">>]
      [] k \in {"tap_E10", "tap_badjson"} -> [cell |-> <<"E", "1", "0">>]
      [] k = "tap_10" -> [cell |-> <<"1", "0">>]
      [] k = "seq_E10_B3" -> [cells |-> <<<<"E", "1", "0">>, <<"b", "3">>>>]
      [] k = "seq_empty" -> [cells |-> <<>>]
      [] k = "seq_E10_B3_X" -> [cells |-> <<<<"E", "1", "0">>, <<"B", "3">>, <<"X">>>>]
      [] k = "seq_E10_7_B3" -> [cells |-> <<<<"E", "1", "0">>, <<"7">>, <<"B", "3">>>>,
                                delay_ms |-> IntVal(200)]
      [] k = "seq_text_delay" -> [cells |-> <<<<"E", "1", "0">>, <<"B", "3">>>>,
                                  delay_ms |-> StrVal(<<"2", "0", "0">>)]
      [] k = "swipe_up" -> [start_cell |-> <<"E", "1", "0">>, end_cell |-> <<"E", "2">>]
      [] k = "swipe_text" -> [start_cell |-> <<"E", "1", "0">>, end_cell |-> <<"E", "2">>,
                              duration_ms |-> StrVal(<<"2", "5", "0", ".", "5">>)]
      [] k = "swipe_E10_X" -> [start_cell |-> <<"E", "1", "0">>, end_cell |-> <<"X">>]
      [] k = "wait_text" -> [seconds |-> StrVal(<<"1", ".", "5">>)]
      [] k = "wait_abc" -> [seconds |-> StrVal(<<"a", "b", "c">>)]
      [] OTHER -> [p \in {} |-> <<>>]

\* tool_call.function.arguments, the text the provider sent: the members written
\* in it, and whether the text is a complete JSON object.  The texts of
\* "tap_badjson" and "done_badjson" are cut off before the closing brace, that
\* of "home_badjson" is the empty string.
CallPayload(k) ==
    [members |-> CallArgs(k),
     complete |-> k \notin {"tap_badjson", "home_badjson", "done_badjson"}]

\* variant: every payload decodes to the members written in it
JsonAlwaysDecodes(payload) == FALSE

\* json.loads(text) raises JSONDecodeError
JsonDecodeFails(payload) == ~payload.complete

\* the arguments _act dispatches with: json.loads(text), {} on JSONDecodeError
DecodeArguments(k) ==
    IF JsonDecodeFails(CallPayload(k)) THEN [p \in {} |-> <<>>] ELSE CallPayload(k).members

\* parameters of each handler: required ones, and all it accepts
RequiredParams(name) ==
    CASE name = "tap" -> {"cell"}
      [] name = "tap_sequence" -> {"cells"}
      [] name = "swipe" -> {"start_cell", "end_cell"}
      [] name = "input_text" -> {"text"}
      [] name = "launch_app" -> {"package"}
      [] name = "wait" -> {"seconds"}
      [] name = "task_complete" -> {"summary"}
      [] name = "task_impossible" -> {"reason"}
      [] OTHER -> {}

OptionalParams(name) ==
    CASE name = "tap_sequence" -> {"delay_ms"}
      [] name = "swipe" -> {"duration_ms"}
      [] OTHER -> {}

\* handler(**args) binds: no required parameter missing, no unexpected keyword
ArgsBind(name, args) ==
    /\ RequiredParams(name) \subseteq DOMAIN args
    /\ DOMAIN args \subseteq (RequiredParams(name) \cup OptionalParams(name))

\* the digits of a numeric text after its sign
Unsigned(s) == IF s # <<>> /\ s[1] \in {"-", "+"} THEN Tail(s) ELSE s
Signed(s, n) == IF s # <<>> /\ s[1] = "-" THEN -n ELSE n

\* int(s) is defined for a str: an optional sign and decimal digits
IntTextValid(s) == Unsigned(s) # <<>> /\ \A i \in 1..Len(Unsigned(s)) : IsDigit(Unsigned(s)[i])

\* float(s) is defined for a str with a "." in it: an optional sign, digits
\* around one ".", at least one digit
FloatTextValid(s) ==
    LET u == Unsigned(s)
    IN /\ \A i \in 1..Len(u) : IsDigit(u[i]) \/ u[i] = "."
       /\ Cardinality({i \in 1..Len(u) : u[i] = "."}) = 1
       /\ Len(u) > 1

\* float(s) in thousandths (the texts of the catalogue have at most three decimals)
FloatOfText(s) ==
    LET u == Unsigned(s)
        dot == Find(u, ".")
        frac == SubSeq(SubSeq(u, dot + 1, Len(u)) \o <<"0", "0", "0">>, 1, 3)
    IN Signed(s, ParseInt(SubSeq(u, 1, dot - 1)) * 1000 + ParseInt(frac))

\* int(v) is defined, and its value: a float is cut towards zero
IntDefined(v) == v.type = "str" => IntTextValid(v.text)
IntOf(v) ==
    IF v.type = "str" THEN Signed(v.text, ParseInt(Unsigned(v.text)))
    ELSE TruncDiv(v.milli, 1000)

\* f"{v}" of a non-negative number: the digits of an int, repr of a float
FormatNumber(v) ==
    LET whole == Str(v.milli \div 1000)
        f == v.milli % 1000
        d3 == <<Digits[(f \div 100) + 1], Digits[((f \div 10) % 10) + 1], Digits[(f % 10) + 1]>>
        frac == IF f % 10 # 0 THEN d3 ELSE IF f % 100 # 0 THEN SubSeq(d3, 1, 2)
                ELSE SubSeq(d3, 1, 1)
    IN IF v.type = "int" THEN whole ELSE whole \o <<".">> \o frac

\* numeric_params of _coerce_arguments
NumericParams(name) ==
    CASE name = "swipe" -> {"duration_ms"}
      [] name = "wait" -> {"seconds"}
      [] OTHER -> {}

\* the parameters TOOL_DEFINITIONS declares with "type": "number"
SchemaNumericParams(name) ==
    CASE name = "tap_sequence" -> {"delay_ms"}
      [] name = "swipe" -> {"duration_ms"}
      [] name = "wait" -> {"seconds"}
      [] OTHER -> {}

\* the try block of _coerce_arguments for a str value: float() when the text
\* has a "." in it, else int(); the value is left as it is on ValueError
CoerceValue(v) ==
    IF v.type # "str" THEN v
    ELSE IF Find(v.text, ".") # 0
         THEN (IF FloatTextValid(v.text) THEN FloatVal(FloatOfText(v.text)) ELSE v)
    ELSE IF IntTextValid(v.text) THEN IntVal(Signed(v.text, ParseInt(Unsigned(v.text))))
    ELSE v

\* ToolExecutor._coerce_arguments(tool_name, arguments): a copy of the
\* arguments with the numeric parameters of the tool coerced
coerce_arguments(name, args) ==
    [p \in DOMAIN args |-> IF p \in NumericParams(name) THEN CoerceValue(args[p]) ELSE args[p]]

\* what a dispatch yields: a result string or a raised exception (its message in
\* value), with the device actions delivered before it returned or raised
Returned(text, actions) == [raised |-> FALSE, value |-> text, dev |-> actions]
Raised(text, actions) == [raised |-> TRUE, value |-> text, dev |-> actions]

\* AndroidController.tap: device.shell("input tap x y"); the shell call may raise
controller_tap(p, deviceFails) ==
    IF deviceFails THEN Raised(<<"adb: device offline">>, <<>>)
    ELSE Returned(<<"Tapped at (", ToString(p[1]), ", ", ToString(p[2]), ")">>,
                  <<<<"input tap", p[1], p[2]>>>>)

\* AndroidController.press_key: device.shell("input keyevent keycode")
controller_press_key(keycode, deviceFails) ==
    IF deviceFails THEN Raised(<<"adb: device offline">>, <<>>)
    ELSE Returned(<<"Pressed key: ", ToString(keycode)>>, <<<<"input keyevent", keycode>>>>)

\* ToolExecutor._press_home: controller.press_home() is press_key(3)
tool_press_home(deviceFails) == controller_press_key(3, deviceFails)

\* _press_back, _press_enter, _press_recent_apps: press_key(4), (66), (187)
tool_press_back(deviceFails) == controller_press_key(4, deviceFails)
tool_press_enter(deviceFails) == controller_press_key(66, deviceFails)
tool_press_recent_apps(deviceFails) == controller_press_key(187, deviceFails)

\* the sanitizing replace() calls of AndroidController.input_text, for a text
\* whose special characters are fragments of their own (the grave accent is
\* written "<grave>")
Sanitize(text) ==
    [i \in 1..Len(text) |->
        CASE text[i] = "\\" -> "\\\\"
          [] text[i] = "\"" -> "\\\""
          [] text[i] = "'" -> "\\'"
          [] text[i] = "<grave>" -> "\\<grave>"
          [] text[i] = "$" -> "\\$"
          [] text[i] = " " -> "%s"
          [] OTHER -> text[i]]

\* variant: input_text answers with the text it typed and nothing else
InputTextEchoes(args, deviceFails) ==
    IF deviceFails THEN Raised(<<"adb: device offline">>, <<>>)
    ELSE Returned(args.text, <<<<"input text">> \o Sanitize(args.text)>>)

\* ToolExecutor._input_text: controller.input_text(text) is
\* device.shell('input text "sanitized"'), then f"Entered text: '{text}'"
tool_input_text(args, deviceFails) ==
    IF deviceFails THEN Raised(<<"adb: device offline">>, <<>>)
    ELSE Returned(<<"Entered text: '">> \o args.text \o <<"'">>,
                  <<<<"input text">> \o Sanitize(args.text)>>)

\* ToolExecutor._launch_app: controller.launch_app(package) is
\* device.shell("monkey -p package -c ... 1"), then f"Launched app: {package}"
tool_launch_app(args, deviceFails) ==
    IF deviceFails THEN Raised(<<"adb: device offline">>, <<>>)
    ELSE Returned(<<"Launched app: ">> \o args.package, <<<<"monkey -p">> \o args.package>>)

\* AndroidController.swipe: device.shell("input swipe x1 y1 x2 y2 duration")
controller_swipe(p, q, duration_ms, deviceFails) ==
    IF deviceFails THEN Raised(<<"adb: device offline">>, <<>>)
    ELSE Returned(<<"Swiped from (", ToString(p[1]), ", ", ToString(p[2]), ") to (",
                    ToString(q[1]), ", ", ToString(q[2]), ")">>,
                  <<<<"input swipe", p[1], p[2], q[1], q[2], duration_ms>>>>)

\* raise ValueError(f"Invalid cell format: {cell}. Expected format like ...") of
\* grid_cell_to_pixels, reached through _cell_to_device_pixels; actions are what
\* the handler did before
InvalidCellFormat(cell, actions) ==
    Raised(<<"Invalid cell format: ">> \o cell
               \o <<". Expected format like 'A1', 'E10', etc.">>, actions)

\* ToolExecutor._tap; deviceFails is the ordinal of the device command of the
\* dispatch on which the device fails, 0 when it does not fail
tool_tap(args, orig, resz, deviceFails) ==
    IF ~CellFormatValid(args.cell)
    THEN InvalidCellFormat(args.cell, <<>>)
    ELSE LET Tap(p) == controller_tap(p, deviceFails = 1)
         IN Apply(Tap, cell_to_device_pixels(args.cell, orig, resz))

\* time.sleep(secs) as an entry of the actions of a handler, secs in thousandths
SleepFor(thousandths) == <<"sleep", thousandths>>

\* an entry of the actions that is a command sent to the device
IsDeviceCommand(a) == a[1] # "sleep"

\* the loop of _tap_sequence from position i on; done holds the actions so far.
\* An invalid cell raises before its tap, a failing device on its tap, and
\* "delay_ms / 1000" raises TypeError for a str and time.sleep raises
\* ValueError for a negative number, both after the tap
RECURSIVE TapSequenceFrom(_, _, _, _, _, _, _)
TapSequenceFrom(cells, delay_ms, orig, resz, deviceFails, i, done) ==
    IF i > Len(cells) THEN Returned(<<"Tapped sequence: ">> \o Join(cells, " -> "), done)
    ELSE IF ~CellFormatValid(cells[i]) THEN InvalidCellFormat(cells[i], done)
    ELSE IF deviceFails = i THEN Raised(<<"adb: device offline">>, done)
    ELSE LET p == cell_to_device_pixels(cells[i], orig, resz)
             tapped == Append(done, <<"input tap", p[1], p[2]>>)
         IN IF i = Len(cells)
            THEN TapSequenceFrom(cells, delay_ms, orig, resz, deviceFails, i + 1, tapped)
            ELSE IF delay_ms.type = "str"
            THEN Raised(<<"unsupported operand type(s) for /: 'str' and 'int'">>, tapped)
            ELSE IF delay_ms.milli < 0
            THEN Raised(<<"sleep length must be non-negative">>, tapped)
            ELSE TapSequenceFrom(cells, delay_ms, orig, resz, deviceFails, i + 1,
                                 Append(tapped, SleepFor(TruncDiv(delay_ms.milli, 1000))))

\* variant: the cells are tapped from the last to the first
TapSequenceBackwards(args, orig, resz, deviceFails) ==
    TapSequenceFrom([i \in 1..Len(args.cells) |-> args.cells[Len(args.cells) + 1 - i]],
                    IntVal(500), orig, resz, deviceFails, 1, <<>>)

\* variant: every cell of the list is checked before the first tap
TapSequenceChecksFirst(args, orig, resz, deviceFails) ==
    LET bad == {i \in 1..Len(args.cells) : ~CellFormatValid(args.cells[i])}
    IN IF bad # {}
       THEN InvalidCellFormat(args.cells[CHOOSE i \in bad : \A j \in bad : i <= j], <<>>)
       ELSE TapSequenceFrom(args.cells,
                            IF "delay_ms" \in DOMAIN args THEN args.delay_ms ELSE IntVal(500),
                            orig, resz, deviceFails, 1, <<>>)

\* ToolExecutor._tap_sequence(cells, delay_ms=500)
tool_tap_sequence(args, orig, resz, deviceFails) ==
    TapSequenceFrom(args.cells,
                    IF "delay_ms" \in DOMAIN args THEN args.delay_ms ELSE IntVal(500),
                    orig, resz, deviceFails, 1, <<>>)

\* ToolExecutor._swipe(start_cell, end_cell, duration_ms=300): both cells are
\* converted, then int(duration_ms), then controller.swipe
tool_swipe(args, orig, resz, deviceFails) ==
    LET duration_ms == IF "duration_ms" \in DOMAIN args THEN args.duration_ms ELSE IntVal(300)
    IN IF ~CellFormatValid(args.start_cell) THEN InvalidCellFormat(args.start_cell, <<>>)
       ELSE IF ~CellFormatValid(args.end_cell) THEN InvalidCellFormat(args.end_cell, <<>>)
       ELSE IF ~IntDefined(duration_ms)
       THEN Raised(<<"invalid literal for int() with base 10: '">> \o duration_ms.text
                       \o <<"'">>, <<>>)
       ELSE controller_swipe(cell_to_device_pixels(args.start_cell, orig, resz),
                             cell_to_device_pixels(args.end_cell, orig, resz),
                             IntOf(duration_ms), deviceFails = 1)

\* ToolExecutor._wait(seconds): time.sleep(seconds), then the f-string
tool_wait(args) ==
    IF args.seconds.type = "str"
    THEN Raised(<<"'str' object cannot be interpreted as an integer">>, <<>>)
    ELSE IF args.seconds.milli < 0 THEN Raised(<<"sleep length must be non-negative">>, <<>>)
    ELSE Returned(<<"Waited ">> \o FormatNumber(args.seconds) \o <<" seconds">>,
                  <<SleepFor(args.seconds.milli)>>)

\* variant: task_complete goes to the home screen before it reports
TaskCompletePressesHome(args) ==
    Returned(<<"TASK_COMPLETE:", " ">> \o args.summary, <<<<"input keyevent", 3>>>>)

\* ToolExecutor._task_complete and ._task_impossible
tool_task_complete(args) == Returned(<<"TASK_COMPLETE:", " ">> \o args.summary, <<>>)
tool_task_impossible(args) == Returned(<<"TASK_IMPOSSIBLE:", " ">> \o args.reason, <<>>)

\* variant: an unknown tool name is answered with a result instead of an exception
UnknownToolReturns(name) == Returned(<<"Unknown tool: ", name>>, <<>>)

\* raise ValueError(f"Unknown tool: {tool_name}"), the first statement of execute
UnknownTool(name) == Raised(<<"Unknown tool: ", name>>, <<>>)

\* self._tool_map[tool_name](**coerced_args)
CallHandler(name, args, orig, resz, deviceFails) ==
    IF ~ArgsBind(name, args) THEN Raised(<<"TypeError: ", name>>, <<>>)
    ELSE CASE name = "tap" -> tool_tap(args, orig, resz, deviceFails)
           [] name = "tap_sequence" -> tool_tap_sequence(args, orig, resz, deviceFails)
           [] name = "swipe" -> tool_swipe(args, orig, resz, deviceFails)
           [] name = "input_text" -> tool_input_text(args, deviceFails = 1)
           [] name = "press_home" -> tool_press_home(deviceFails = 1)
           [] name = "press_back" -> tool_press_back(deviceFails = 1)
           [] name = "press_enter" -> tool_press_enter(deviceFails = 1)
           [] name = "press_recent_apps" -> tool_press_recent_apps(deviceFails = 1)
           [] name = "launch_app" -> tool_launch_app(args, deviceFails = 1)
           [] name = "wait" -> tool_wait(args)
           [] name = "task_complete" -> tool_task_complete(args)
           [] name = "task_impossible" -> tool_task_impossible(args)

\* ToolExecutor.execute(tool_name, arguments)
execute(name, args, orig, resz, deviceFails) ==
    IF name \notin ToolNames THEN UnknownTool(name)
    ELSE CallHandler(name, coerce_arguments(name, args), orig, resz, deviceFails)

\* the number of commands the dispatch of call k sends to a device that does
\* not fail (the device can fail on any one of them)
DeviceCommandTable ==
    [k \in ToolCalls |->
        Len(SelectSeq(execute(CallName(k), DecodeArguments(k), NoSize, NoSize, 0).dev,
                      IsDeviceCommand))]

DeviceCommands(k) == DeviceCommandTable[k]

----------------------------------------------------------------------------
(* Conversation turns: the dicts of Agent.message_history *)

StrContent(text) == [kind |-> "str", text |-> text, items |-> <<>>]
ListContent(items) == [kind |-> "list", text |-> <<>>, items |-> items]
NoContent == [kind |-> "none", text |-> <<>>, items |-> <<>>]
TextItem(text) == [type |-> "text", text |-> text, url |-> <<>>]
ImageItem(url) == [type |-> "image_url", text |-> <<>>, url |-> url]

Turn(role, content, calls, id) ==
    [role |-> role, content |-> content, tool_calls |-> calls, tool_call_id |-> id]

SystemTurn == Turn("system", StrContent(<<"SYSTEM_PROMPT">>), <<>>, <<>>)
ObjectiveTurn(obj) ==
    Turn("user", StrContent(<<"Your objective: ">> \o obj
                            \o <<"\n\nI will now show you the current screen state.">>),
         <<>>, <<>>)
\* assistant_message.model_dump(): no free text, the tool calls of the response
AssistantTurn(calls) == Turn("assistant", NoContent, calls, <<>>)
ToolResultTurn(id, text) == Turn("tool", StrContent(text), <<>>, id)

HierarchyHeader == "\n\nUI Hierarchy:"
StrippedMarker == "\n[UI hierarchy removed from history]"
RemovedMarker == " [Screenshot removed for history management]"

\* last_col_letter of _think: chr(ord('A') + grid_cols - 1), 'Z+' beyond 26 columns
LastColLetter(cols) ==
    IF cols > 26 THEN "Z+" ELSE IF cols = 0 THEN "@" ELSE Letters[cols]

\* the grid the text of an observation turn announces
GridText(cols, rows) ==
    <<"Current screen with ", ToString(cols), "x", ToString(rows), " grid (columns A-",
      LastColLetter(cols), ", rows 1-", ToString(rows), ").">>

\* the text and the vision message built by _think from an observation
VisionText(obs) ==
    GridText(obs.grid_cols, obs.grid_rows)
    \o (IF obs.ui_hierarchy # None /\ obs.ui_hierarchy # <<>>
        THEN <<HierarchyHeader, "\n<fence>\n">> \o obs.ui_hierarchy \o <<"\n<fence>">>
        ELSE <<>>)
    \o <<"\nWhat action should I take next?">>

VisionTurn(obs) ==
    Turn("user", ListContent(<<TextItem(VisionText(obs)), ImageItem(obs.data_url)>>), <<>>, <<>>)

----------------------------------------------------------------------------
(* History manager: Agent._manage_history *)

\* "UI Hierarchy:" in text
HasHierarchy(text) == \E i \in 1..Len(text) : text[i] \in {HierarchyHeader, "UI Hierarchy:"}

\* any(item.get("type") == "image_url" for item in msg["content"])
HasImage(msg) ==
    /\ msg.content.kind = "list"
    /\ \E i \in 1..Len(msg.content.items) : msg.content.items[i].type = "image_url"

\* text.split("\n\nUI Hierarchy:")[0]
StripHierarchy(text) == SplitFirst(text, HierarchyHeader)

\* " ".join(text_parts) over the text items, each stripped of its hierarchy block
RECURSIVE JoinTextParts(_)
JoinTextParts(items) ==
    IF items = <<>> THEN <<>>
    ELSE LET rest == JoinTextParts(Tail(items))
             restHasText == \E i \in 1..Len(Tail(items)) : Tail(items)[i].type = "text"
             part == IF HasHierarchy(Head(items).text)
                     THEN StripHierarchy(Head(items).text) ELSE Head(items).text
         IN IF Head(items).type = "text"
            THEN part \o (IF restHasText THEN <<" ">> ELSE <<>>) \o rest
            ELSE rest

\* variant: the image is dropped without a marker
DegradeWithoutMarker(msg) ==
    [msg EXCEPT !.content = StrContent(JoinTextParts(msg.content.items))]

\* beyond the image cap: the content becomes a plain str
DegradeTurn(msg) ==
    [msg EXCEPT !.content = StrContent(JoinTextParts(msg.content.items) \o <<RemovedMarker>>)]

\* variant: the removal marker is added to the text of an older image turn on
\* every pass, whether or not a hierarchy block was there to remove
StripOnEveryPass(msg) ==
    [msg EXCEPT !.content.items =
        [i \in 1..Len(msg.content.items) |->
            IF msg.content.items[i].type = "text"
            THEN [msg.content.items[i] EXCEPT
                     !.text = StripHierarchy(msg.content.items[i].text) \o <<StrippedMarker>>]
            ELSE msg.content.items[i]]]

\* variant: an older image turn keeps its hierarchy block
KeepHierarchy(msg) == msg

\* within the cap but not the most recent image: the hierarchy block goes, the image stays
StripTurn(msg) ==
    [msg EXCEPT !.content.items =
        [i \in 1..Len(msg.content.items) |->
            IF msg.content.items[i].type = "text" /\ HasHierarchy(msg.content.items[i].text)
            THEN [msg.content.items[i] EXCEPT
                     !.text = StripHierarchy(msg.content.items[i].text) \o <<StrippedMarker>>]
            ELSE msg.content.items[i]]]

\* variant: the cap is applied one image late ("image_count > self.max_images + 1")
PruneTurnOneLate(msg, image_count, cap) ==
    IF image_count > cap + 1 THEN DegradeTurn(msg)
    ELSE IF image_count > 1 THEN StripTurn(msg)
    ELSE msg

\* one step of the backward loop on message i, image_count being the count after it
PruneTurn(msg, image_count, cap) ==
    IF image_count > cap THEN DegradeTurn(msg)
    ELSE IF image_count > 1 THEN StripTurn(msg)
    ELSE msg

\* image_count when the backward loop "for i in range(len - 1, -1, -1)" has
\* counted message i: the image turns at positions i..len (rewriting a turn
\* never changes whether another turn has an image)
ImageCountAt(h, i) == Cardinality({j \in i..Len(h) : HasImage(h[j])})

\* variant: the oldest image turn beyond the cap is taken out of the window
DropOldestImageTurn(h, cap) ==
    LET img == {i \in 1..Len(h) : HasImage(h[i])}
        oldest == CHOOSE i \in img : \A j \in img : i <= j
    IN IF Cardinality(img) > cap
       THEN SubSeq(h, 1, oldest - 1) \o SubSeq(h, oldest + 1, Len(h))
       ELSE h

manage_history(h, cap) ==
    [i \in 1..Len(h) |->
        IF HasImage(h[i]) THEN PruneTurn(h[i], ImageCountAt(h, i), cap) ELSE h[i]]

----------------------------------------------------------------------------
(* UI-hierarchy compactor: android_controller.ui_hierarchy *)

\* An element of the dump: its attributes as element.get(name, default) gives
\* them, and its children in document order.  A bounds attribute is the token
\* sequence "[" x1 "," y1 "]" "[" x2 "," y2 "]", the numbers being the digit
\* runs of the text; <<>> is the absent (or empty) attribute.
Element(class, text, desc, id, clickable, scrollable, bounds, children) ==
    [class |-> class, text |-> text, desc |-> desc, id |-> id, clickable |-> clickable,
     scrollable |-> scrollable, bounds |-> bounds, children |-> children]

BoundsText(x1, y1, x2, y2) == <<"[", x1, ",", y1, "]", "[", x2, ",", y2, "]">>

\* re.match(r'\[(\d+),(\d+)\]\[(\d+),(\d+)\]', bounds_str) succeeds
BoundsMatch(b) ==
    /\ Len(b) >= 10
    /\ <<b[1], b[3], b[5], b[6], b[8], b[10]>> = <<"[", ",", "]", "[", ",", "]">>

\* parse_bounds(bounds_str)
parse_bounds(b) == IF BoundsMatch(b) THEN <<b[2], b[4], b[7], b[9]>> ELSE <<0, 0, 0, 0>>

\* the part of s after its last fragment sep, s itself without one: s.split(sep)[-1]
RECURSIVE AfterLast(_, _)
AfterLast(s, sep) ==
    IF Find(s, sep) = 0 THEN s ELSE AfterLast(SubSeq(s, Find(s, sep) + 1, Len(s)), sep)

\* _get_short_class_name(full_class)
get_short_class_name(class) == AfterLast(class, ".")

\* click_cell of bounds_to_cell_info: the cell of the scaled center of the raw
\* bounds; int(center * scale // cell_size) is the floor of an exact quotient
click_cell(b, orig, resz, cell_size) ==
    LET box == parse_bounds(b)
        click_col == ((box[1] + box[3]) * resz[1]) \div (2 * orig[1] * cell_size)
        click_row == ((box[2] + box[4]) * resz[2]) \div (2 * orig[2] * cell_size)
    IN get_column_label(click_col) \o Str(click_row + 1)

\* math.ceil(a / b) for b > 0
CeilDiv(a, b) == IF a >= 0 THEN (a + b - 1) \div b ELSE -((-a) \div b)

\* variant: the cell that holds the scaled corner, int(v * scale // cell_size)
CornerCell(v, original, resized, cell_size) == (v * resized) \div (original * cell_size)

\* math.ceil(v * scale / cell_size - 0.5) with scale = resized / original:
\* the ceiling of (2 v resized - original cell_size) / (2 original cell_size)
CenterCeil(v, original, resized, cell_size) ==
    CeilDiv(2 * v * resized - original * cell_size, 2 * original * cell_size)

\* bound_range of bounds_to_cell_info: the cells whose centers are within the
\* scaled box, "[start]" or "[start,end]"
bound_range(b, orig, resz, cell_size) ==
    LET box == parse_bounds(b)
        start_col == CenterCeil(box[1], orig[1], resz[1], cell_size)
        start_row == CenterCeil(box[2], orig[2], resz[2], cell_size)
        end_col == Max(CenterCeil(box[3], orig[1], resz[1], cell_size) - 1, start_col)
        end_row == Max(CenterCeil(box[4], orig[2], resz[2], cell_size) - 1, start_row)
        start_cell == get_column_label(start_col) \o Str(start_row + 1)
        end_cell == get_column_label(end_col) \o Str(end_row + 1)
    IN IF start_cell = end_cell THEN <<"[">> \o start_cell \o <<"]">>
       ELSE <<"[">> \o start_cell \o <<",">> \o end_cell \o <<"]">>

\* bounds_to_cell_info(bounds_str, original_size, resized_size, cell_size)
bounds_to_cell_info(b, orig, resz, cell_size) ==
    [bound |-> bound_range(b, orig, resz, cell_size),
     click |-> click_cell(b, orig, resz, cell_size)]

\* the description of one listed element: '{ ' + ' '.join(parts) + ' }'
ElementEntry(e, orig, resz) ==
    LET parts ==
            <<<<"[">> \o get_short_class_name(e.class) \o <<"]">>>>
            \o (IF e.text # <<>> THEN <<<<"\"">> \o e.text \o <<"\"">>>>
                ELSE IF e.desc # <<>> THEN <<<<"desc=\"">> \o e.desc \o <<"\"">>>>
                ELSE <<>>)
            \o (IF e.id # <<>> THEN <<<<"id=\"">> \o AfterLast(e.id, "/") \o <<"\"">>>>
                ELSE <<>>)
            \o <<<<"position=\"">> \o click_cell(e.bounds, orig, resz, CELL_SIZE) \o <<"\"">>>>
            \o (IF e.scrollable = "true" THEN <<<<"(scrollable)">>>> ELSE <<>>)
    IN <<"{ ">> \o Join(parts, " ") \o <<" }">>

\* "if is_interactive and bounds": the bounds attribute is a non-empty string
IsListed(e) == (e.clickable = "true" \/ e.scrollable = "true") /\ e.bounds # <<>>

\* _collect_interactive_elements: the entries appended for element e and its subtree
RECURSIVE collect_interactive_elements(_, _, _)
collect_interactive_elements(e, orig, resz) ==
    LET RECURSIVE OfChildren(_)
        OfChildren(i) ==
            IF i > Len(e.children) THEN <<>>
            ELSE collect_interactive_elements(e.children[i], orig, resz) \o OfChildren(i + 1)
    IN (IF IsListed(e) THEN <<ElementEntry(e, orig, resz)>> ELSE <<>>) \o OfChildren(1)

\* parse_ui_hierarchy for a dump that parses: root is the <hierarchy> element,
\* whose children are collected; elements is the list, text the returned str
parse_ui_hierarchy(root, orig, resz) ==
    LET RECURSIVE OfChildren(_)
        OfChildren(i) ==
            IF i > Len(root.children) THEN <<>>
            ELSE collect_interactive_elements(root.children[i], orig, resz) \o OfChildren(i + 1)
        elements == OfChildren(1)
    IN [elements |-> elements,
        text |-> IF elements = <<>> THEN <<"No interactive elements found">>
                 ELSE Join(elements, "\n")]

----------------------------------------------------------------------------
(* Observation: Agent._observe *)

\* what the device may show: the screenshot size, and what get_ui_hierarchy() gives:
\* "fail" (the dump raises), "elements" (a dump with interactive elements) or
\* "garbled" (output that is no XML: "ERROR: could not get idle state.")
PortraitScreen == [raw |-> <<1080, 2400>>, dump |-> "elements"]
SmallScreen == [raw |-> <<720, 1280>>, dump |-> "fail"]
GarbledScreen == [raw |-> <<1080, 2400>>, dump |-> "garbled"]
Screens == {PortraitScreen, SmallScreen}
AllScreens == Screens \cup {GarbledScreen}

\* utils.resize_image(image, max_size).size; scale = min(max_size / w, max_size / h)
resize_image(size, limit) ==
    IF size[1] <= limit /\ size[2] <= limit THEN size
    ELSE <<(size[1] * limit) \div Max(size[1], size[2]),
           (size[2] * limit) \div Max(size[1], size[2])>>

\* the except branch of parse_ui_hierarchy: ET.fromstring raised ParseError e
ParseErrorText(e) == <<"Error parsing UI hierarchy: ", e>>

\* variant: the element list of the last good dump is used whatever the dump gives
StaleHierarchy(dump) == <<"{ [Button] desc=\"Toggle history\" position=\"B2\" }">>

\* the ui_hierarchy entry of the observation: None when get_ui_hierarchy()
\* raised, else what parse_ui_hierarchy returns
UiHierarchy(dump) ==
    IF dump = "fail" THEN None
    ELSE IF dump = "garbled" THEN ParseErrorText("syntax error: line 1, column 0")
    ELSE <<"{ [Button] desc=\"Toggle history\" position=\"B2\" }">>

\* the dict returned by _observe
Observe(raw, dump) ==
    LET resized == resize_image(raw, max_size) IN
    [data_url |-> <<"data:image/png;base64,">>,
     original_size |-> raw,
     resized_size |-> resized,
     grid_cols |-> resized[1] \div CELL_SIZE,
     grid_rows |-> resized[2] \div CELL_SIZE,
     ui_hierarchy |-> UiHierarchy(dump)]

NoObservation ==
    [data_url |-> <<>>, original_size |-> NoSize, resized_size |-> NoSize,
     grid_cols |-> 0, grid_rows |-> 0, ui_hierarchy |-> None]

----------------------------------------------------------------------------
(* Model provider: the rate-limit error texts, and the wait taken from them *)

RateLimitTexts ==
    {<<"Rate limit reached.">>,
     <<"Rate limit reached. Please ", "try again in ", "1", ".", "5", "s", ".">>,
     <<"Please ", "try again in ", "7", "m", "s">>,
     <<"try again in ", "1", ".", "2", ".", "3", "s">>}

IsNumChar(c) == IsDigit(c) \/ c = "."

\* the longest run of [\d.] characters of t from position i on
RECURSIVE NumRun(_, _)
NumRun(t, i) ==
    IF i <= Len(t) /\ IsNumChar(t[i]) THEN <<t[i]>> \o NumRun(t, i + 1) ELSE <<>>

\* re.search(r"try again in ([\d.]+)s", t) matches at position i
MatchesAt(t, i) ==
    /\ t[i] = "try again in "
    /\ NumRun(t, i + 1) # <<>>
    /\ i + Len(NumRun(t, i + 1)) + 1 <= Len(t)
    /\ t[i + Len(NumRun(t, i + 1)) + 1] = "s"

HasSuggestedWait(t) == \E i \in 1..Len(t) : MatchesAt(t, i)

\* seconds_match.group(1) of the first match
SuggestedWait(t) ==
    LET i == CHOOSE j \in 1..Len(t) : MatchesAt(t, j) /\ \A m \in 1..(j - 1) : ~MatchesAt(t, m)
    IN NumRun(t, i + 1)

Dots(run) == Cardinality({i \in 1..Len(run) : run[i] = "."})

\* float(run) is defined: at most one ".", at least one digit
FloatValid(run) == Dots(run) <= 1 /\ Len(run) > Dots(run)

\* float(run) in tenths of a second (fractions of a tenth do not occur in RateLimitTexts)
ParseFloat(run) ==
    LET dot == Find(run, ".")
        whole == IF dot = 0 THEN run ELSE SubSeq(run, 1, dot - 1)
        frac == IF dot = 0 THEN <<>> ELSE SubSeq(run, dot + 1, Len(run))
    IN Seconds(ParseInt(whole)) + (IF frac = <<>> THEN 0 ELSE DigitVal(frac[1]))

\* variant: a constant delay instead of the exponential one
ConstantBackoff(a) == Seconds(base_delay)

\* base_delay * (2 ** attempt)
Backoff(a) == Seconds(base_delay * Pow2(a))

\* variant: the suggested wait is taken as it is, without the added second
WaitTimeNoMargin(t, a) ==
    IF HasSuggestedWait(t) THEN ParseFloat(SuggestedWait(t)) ELSE Seconds(base_delay * Pow2(a))

\* wait_time of the RateLimitError handler (when float() does not raise)
WaitTime(t, a) ==
    IF HasSuggestedWait(t) THEN ParseFloat(SuggestedWait(t)) + Seconds(1) ELSE Backoff(a)

\* the handler itself raises ValueError when the matched text is no float
WaitRaises(t) == HasSuggestedWait(t) /\ ~FloatValid(SuggestedWait(t))

----------------------------------------------------------------------------
(* Agent loop: Agent.run, _observe, _think, _act *)

Objectives == {<<"Open settings">>}

SeqsUpTo(S, n) == UNION {[1..m -> S] : m \in 0..n}

\* counters of a run, and what the last get_ui_hierarchy() gave
ZeroStats == [observes |-> 0, calls |-> 0, ok |-> 0, dispatched |-> 0, dump |-> "none"]

\* The environment of a run is bounded in one of three ways: a device whose
\* screen changes between iterations, in front of a provider that taps (twice
\* at most); a provider that returns batches of tool calls; and a provider
\* that is rate limited and returns at most one tool call, a terminal one or
\* a tap that fails.  In the last two the device keeps showing the same screen.
ScreenCalls == {"tap_E10"}
BatchCalls == {"done", "tap_E10", "open_camera", "tap_badjson", "home_badjson"}
RateLimitedCalls == {"done", "done_empty", "done_nested", "impossible", "tap_10"}

Budgets == {[runs |-> 1, calls |-> 2, ratelimits |-> 0, screens |-> Screens,
             tools |-> ScreenCalls],
            [runs |-> 1, calls |-> MaxToolCalls, ratelimits |-> 0,
             screens |-> {PortraitScreen}, tools |-> BatchCalls],
            [runs |-> 1, calls |-> 1, ratelimits |-> MaxRateLimits,
             screens |-> {PortraitScreen}, tools |-> RateLimitedCalls]}

\* no library call is being examined
NoProbe == [fn |-> "none", arg |-> <<>>, out |-> <<>>, done |-> FALSE]

\* no MCP server and no CLI command is running
NoServer == [running |-> FALSE]

\* entries of events: time.sleep(dur), and a completion call with how it ended
Sleep(kind, d) == [ev |-> "sleep", kind |-> kind, dur |-> d, text |-> <<>>]
Call(result, t) == [ev |-> "call", kind |-> result, dur |-> 0, text |-> t]
\* time.sleep(2) before each request
Pacing == Sleep("pacing", Seconds(2))

\* exceptions litellm.completion may raise
ProviderErrors == {"RateLimitError", "APIError"}

\* variants: one iteration more than the budget, and a loop without a budget
OneMoreIteration(i, n) == i <= n
LoopWithoutBudget(i, n) == TRUE

\* range(1, self.max_iterations + 1) has an element after i
HasNextIteration(i, n) == i < n

\* variants: the last attempt is retried as well, and every provider error is retried
RetryOnceMore(exc, a) ==
    IF exc = "RateLimitError" /\ a # max_retries + 1 THEN "retry" ELSE "raise"
RetryAnything(exc, a) == IF a # max_retries THEN "retry" ELSE "raise"

\* the except clauses of _think: a rate limit is retried unless the attempts
\* are used up ("if attempt == max_retries: raise"); anything else is re-raised
Disposition(exc, a) == IF exc = "RateLimitError" /\ a # max_retries THEN "retry" ELSE "raise"

\* f"Max iterations ({self.max_iterations}) reached without completion"
MaxIterationsNotice(n) == <<"Max iterations (", ToString(n), ") reached without completion">>

\* self._task_result or "Task completed"
ResultOrDefault(r) == IF r = None \/ r = <<>> THEN <<"Task completed">> ELSE r

\* the agent and its executor as their constructors leave them
Constructed ==
    /\ pc = "idle"
    /\ objective = <<>>
    /\ iteration = 0
    /\ message_history = <<>>
    /\ task_finished = FALSE
    /\ task_result = None
    /\ observation = NoObservation
    /\ attempt = 0
    /\ response = <<>>
    /\ callIdx = 0
    /\ original_size = NoSize
    /\ resized_size = NoSize
    /\ outcome = "none"
    /\ retval = None
    /\ sent = <<>>
    /\ events = <<>>
    /\ batch = <<>>
    /\ device = <<>>
    /\ stats = ZeroStats

Init ==
    /\ max_iterations \in 0..MaxIterations
    /\ max_images \in 0..MaxImages
    /\ budget \in Budgets
    /\ probe = NoProbe
    /\ mcp = NoServer
    /\ Constructed

\* variant: run() keeps the window of the run before and adds the new objective to it
KeepWindow(h, obj) ==
    IF h = <<>> THEN <<SystemTurn, ObjectiveTurn(obj)>> ELSE Append(h, ObjectiveTurn(obj))

\* the window run() starts with, whatever the window h held before: the list is
\* assigned anew, the system prompt and the objective are its only turns
FreshWindow(h, obj) == <<SystemTurn, ObjectiveTurn(obj)>>

\* run(objective), up to the for loop: the window and the flags are reset
Run(obj) ==
    /\ pc \in {"idle", "done"}
    /\ budget.runs > 0
    /\ budget' = [budget EXCEPT !.runs = @ - 1]
    /\ objective' = obj
    /\ message_history' = FreshWindow(message_history, obj)
    /\ task_finished' = FALSE
    /\ task_result' = None
    /\ iteration' = 0
    /\ pc' = "loop"
    /\ outcome' = "none"
    /\ retval' = None
    /\ sent' = <<>>
    /\ events' = <<>>
    /\ batch' = <<>>
    /\ device' = <<>>
    /\ stats' = ZeroStats
    /\ observation' = NoObservation
    /\ attempt' = 0
    /\ response' = <<>>
    /\ callIdx' = 0
    /\ UNCHANGED <<probe, mcp, max_iterations, max_images, original_size, resized_size>>

\* the loop head and _observe(): the next iteration starts with a screenshot
LoopObserve(screen) ==
    /\ pc = "loop"
    /\ screen \in budget.screens
    /\ HasNextIteration(iteration, max_iterations)
    /\ iteration' = iteration + 1
    /\ \E obs \in {Observe(screen.raw, screen.dump)} : observation' = obs
    /\ stats' = [stats EXCEPT !.observes = @ + 1, !.dump = screen.dump]
    /\ batch' = <<>>
    /\ pc' = "think"
    /\ UNCHANGED <<probe, mcp, budget, max_iterations, max_images, objective, message_history,
                   task_finished, task_result, attempt, response, callIdx, original_size,
                   resized_size, outcome, retval, sent, events, device>>

\* controller.get_screenshot() raises: run() prints the error and re-raises
LoopObserveFails ==
    /\ pc = "loop"
    /\ HasNextIteration(iteration, max_iterations)
    /\ iteration' = iteration + 1
    /\ stats' = [stats EXCEPT !.observes = @ + 1, !.dump = "none"]
    /\ batch' = <<>>
    /\ pc' = "done"
    /\ outcome' = "raised"
    /\ retval' = <<"AdbError">>
    /\ UNCHANGED <<probe, mcp, budget, max_iterations, max_images, objective, message_history,
                   task_finished, task_result, observation, attempt, response, callIdx,
                   original_size, resized_size, sent, events, device>>

\* the for loop is exhausted: the max-iterations notice is returned
MaxIterationsReached ==
    /\ pc = "loop"
    /\ ~HasNextIteration(iteration, max_iterations)
    /\ pc' = "done"
    /\ outcome' = "returned"
    /\ retval' = MaxIterationsNotice(max_iterations)
    /\ UNCHANGED <<probe, mcp, budget, max_iterations, max_images, objective, iteration,
                   message_history, task_finished, task_result, observation, attempt,
                   response, callIdx, original_size, resized_size, sent, events, batch,
                   device, stats>>

\* _think up to the retry loop: the vision message is appended once
ThinkBegin ==
    /\ pc = "think"
    /\ \E vision_message \in {VisionTurn(observation)} :
          message_history' = Append(message_history, vision_message)
    /\ attempt' = 0
    /\ events' = <<>>
    /\ pc' = "attempt"
    /\ UNCHANGED <<probe, mcp, budget, max_iterations, max_images, objective, iteration, task_finished,
                   task_result, observation, response, callIdx, original_size, resized_size,
                   outcome, retval, sent, batch, device, stats>>

\* variant: the vision message is appended inside the retry loop
AppendEachAttempt(h, obs) == Append(h, VisionTurn(obs))

\* the window an attempt works on: the vision message was appended before the
\* retry loop, an attempt appends nothing before its completion call
AttemptWindow(h, obs) == h

\* one attempt that succeeds: pacing sleep, pruning pass, completion call,
\* the assistant message is appended and the response returned
AttemptSucceeds ==
    /\ pc = "attempt"
    /\ attempt <= max_retries
    /\ events' = events \o <<Pacing, Call("ok", <<>>)>>
    /\ \E pruned \in {manage_history(AttemptWindow(message_history, observation),
                                     max_images)} :
       \E calls \in SeqsUpTo(budget.tools, budget.calls) :
          /\ budget' = [budget EXCEPT !.calls = @ - Len(calls)]
          /\ sent' = pruned
          /\ message_history' = Append(pruned, AssistantTurn(calls))
          /\ response' = calls
    /\ stats' = [stats EXCEPT !.calls = @ + 1, !.ok = @ + 1]
    /\ pc' = "act"
    /\ UNCHANGED <<probe, mcp, max_iterations, max_images, objective, iteration, task_finished,
                   task_result, observation, attempt, callIdx, original_size, resized_size,
                   outcome, retval, batch, device>>

\* one attempt on which the completion call raises exc, with the text t: the
\* exception is re-raised out of run(), or the attempt is retried after a wait
\* (the handler itself raises ValueError when the wait in the text is no float)
AttemptRaises ==
    /\ pc = "attempt"
    /\ attempt <= max_retries
    /\ stats' = [stats EXCEPT !.calls = @ + 1]
    /\ \E pruned \in {manage_history(AttemptWindow(message_history, observation),
                                     max_images)} :
          /\ sent' = pruned
          /\ message_history' = pruned
    /\ \E exc \in ProviderErrors, t \in RateLimitTexts \cup {<<>>} :
          /\ (exc = "RateLimitError") = (t \in RateLimitTexts)
          /\ exc = "RateLimitError" => budget.ratelimits > 0
          /\ budget' = IF exc = "RateLimitError"
                       THEN [budget EXCEPT !.ratelimits = @ - 1] ELSE budget
          /\ IF Disposition(exc, attempt) = "raise"
             THEN /\ events' = events \o <<Pacing, Call(exc, t)>>
                  /\ pc' = "done"
                  /\ outcome' = "raised"
                  /\ retval' = <<exc>>
                  /\ attempt' = attempt
             ELSE IF WaitRaises(t)
             THEN /\ events' = events \o <<Pacing, Call(exc, t)>>
                  /\ pc' = "done"
                  /\ outcome' = "raised"
                  /\ retval' = <<"ValueError">>
                  /\ attempt' = attempt
             ELSE /\ \E wait_time \in {WaitTime(t, attempt)} :
                        events' = events \o <<Pacing, Call(exc, t),
                                              Sleep("backoff", wait_time)>>
                  /\ pc' = "attempt"
                  /\ attempt' = attempt + 1
                  /\ UNCHANGED <<outcome, retval>>
    /\ UNCHANGED <<probe, mcp, max_iterations, max_images, objective, iteration, task_finished,
                   task_result, observation, response, callIdx, original_size, resized_size,
                   batch, device>>

\* variant: every tool turn of a batch is filed under the id of its first call
FirstCallId(iter, i) == <<iter, 1>>

\* tool_call.id of the i-th tool call of the response of this iteration
CallId(iter, i) == <<iter, i>>

\* variant: the executor keeps the sizes it was given first
KeepStoredSizes(obs, stored) ==
    IF stored[1] = NoSize THEN <<obs.original_size, obs.resized_size>> ELSE stored

\* the sizes _act stores in the executor before the for loop: those of the
\* observation it was called with, whatever was stored before
ExecutorSizes(obs, stored) == <<obs.original_size, obs.resized_size>>

\* _act up to the for loop: nothing to do without tool calls, else the executor
\* gets the sizes of this iteration's observation; _think has returned, its
\* log is dropped
ActBegin ==
    /\ pc = "act"
    /\ IF response = <<>>
       THEN /\ pc' = "check"
            /\ UNCHANGED <<original_size, resized_size, callIdx>>
       ELSE /\ \E sizes \in {ExecutorSizes(observation, <<original_size, resized_size>>)} :
                  /\ original_size' = sizes[1]
                  /\ resized_size' = sizes[2]
            /\ callIdx' = 1
            /\ pc' = "dispatch"
    /\ events' = <<>>
    /\ UNCHANGED <<probe, mcp, budget, max_iterations, max_images, objective, iteration,
                   message_history, task_finished, task_result, observation, attempt,
                   response, outcome, retval, sent, batch, device, stats>>

\* result.replace(prefix + " ", "") for a result that starts with the prefix
StripSentinel(result, prefix) == Replace(result, <<prefix, " ">>, <<>>)

IsTerminalResult(result) ==
    StartsWith(result, <<"TASK_COMPLETE:">>) \/ StartsWith(result, <<"TASK_IMPOSSIBLE:">>)

\* _task_result after a successful dispatch that returned result
ResultAfter(result, before) ==
    IF StartsWith(result, <<"TASK_COMPLETE:">>) THEN StripSentinel(result, "TASK_COMPLETE:")
    ELSE IF StartsWith(result, <<"TASK_IMPOSSIBLE:">>)
         THEN StripSentinel(result, "TASK_IMPOSSIBLE:")
    ELSE before

\* f"Error executing {tool_name}: {e}"
ErrorText(name, e) == <<"Error executing ", name, ": ">> \o e

\* the content of the ToolResultTurn for the dispatch outcome r of a call named name
ToolResultText(name, r) == IF r.raised THEN ErrorText(name, r.value) ELSE r.value

\* variant: a failed dispatch ends the batch
AbortBatchOnError(raised, idx, n) == IF raised \/ idx = n THEN "check" ELSE "dispatch"

\* variant: _act returns as soon as one call has been dispatched
ReturnAfterFirstCall(raised, idx, n) == "check"

\* variant: _act returns before the last call of a batch is dispatched
LeaveBatchEarly(raised, idx, n) == IF idx >= n - 1 THEN "check" ELSE "dispatch"

\* where _act goes after the call at position idx of n: the for loop takes the
\* next call whether or not the dispatch raised, and returns after the last
AfterCall(raised, idx, n) == IF idx = n THEN "check" ELSE "dispatch"

\* one pass of the for loop of _act: decode, dispatch, record the result or the error
Dispatch ==
    /\ pc = "dispatch"
    /\ \E k \in {response[callIdx]} :
       \E deviceFails \in 0..DeviceCommands(k) :
       \E r \in {execute(CallName(k), DecodeArguments(k), original_size, resized_size,
                         deviceFails)} :
          /\ task_finished' = (task_finished \/ (~r.raised /\ IsTerminalResult(r.value)))
          /\ task_result' = IF r.raised THEN task_result ELSE ResultAfter(r.value, task_result)
          /\ message_history' = Append(message_history,
                                       ToolResultTurn(CallId(iteration, callIdx),
                                                      ToolResultText(CallName(k), r)))
          /\ device' = device \o r.dev
          /\ batch' = Append(batch, [call |-> k, args |-> DecodeArguments(k),
                                     raised |-> r.raised, dev |-> r.dev,
                                     orig |-> original_size, resz |-> resized_size])
          /\ pc' = AfterCall(r.raised, callIdx, Len(response))
    /\ stats' = [stats EXCEPT !.dispatched = @ + 1]
    /\ callIdx' = callIdx + 1
    /\ UNCHANGED <<probe, mcp, budget, max_iterations, max_images, objective, iteration, observation,
                   attempt, response, original_size, resized_size, outcome, retval, sent,
                   events>>

\* back in run(): return the result when the task finished, else loop
Check ==
    /\ pc = "check"
    /\ IF task_finished
       THEN /\ pc' = "done"
            /\ outcome' = "returned"
            /\ retval' = ResultOrDefault(task_result)
       ELSE /\ pc' = "loop"
            /\ UNCHANGED <<outcome, retval>>
    /\ UNCHANGED <<probe, mcp, budget, max_iterations, max_images, objective, iteration,
                   message_history, task_finished, task_result, observation, attempt,
                   response, callIdx, original_size, resized_size, sent, events, batch,
                   device, stats>>

Next ==
    \/ \E obj \in Objectives : Run(obj)
    \/ \E screen \in AllScreens : LoopObserve(screen)
    \/ LoopObserveFails
    \/ MaxIterationsReached
    \/ ThinkBegin
    \/ AttemptSucceeds
    \/ AttemptRaises
    \/ ActBegin
    \/ Dispatch
    \/ Check

Spec == Init /\ [][Next]_vars

\* run() is sequential code: a step that can be taken is taken
FairSpec == Spec /\ WF_vars(Next)

\* The same loop in front of a provider that asks for gestures and waits (tap
\* sequences, swipes, waits, with numbers sent as numbers or as text).
GestureCalls == {"tap_E10", "tap_10", "seq_E10_B3", "seq_E10_7_B3", "seq_text_delay", "swipe_up",
                 "swipe_text", "swipe_E10_X", "wait_text", "wait_abc", "seq_empty",
                 "seq_E10_B3_X"}

GestureBudgets == {[runs |-> 1, calls |-> 2, ratelimits |-> 0,
                    screens |-> {PortraitScreen}, tools |-> GestureCalls]}

GestureInit ==
    /\ max_iterations \in 0..MaxIterations
    /\ max_images \in 0..MaxImages
    /\ budget \in GestureBudgets
    /\ probe = NoProbe
    /\ mcp = NoServer
    /\ Constructed

GestureSpec == GestureInit /\ [][Next]_vars

\* The same loop on a device whose hierarchy dump may fail or come back
\* garbled, in front of a provider that taps.
DumpBudgets == {[runs |-> 1, calls |-> 1, ratelimits |-> 0, screens |-> AllScreens,
                 tools |-> ScreenCalls]}

DumpInit ==
    /\ max_iterations \in 0..MaxIterations
    /\ max_images \in 0..MaxImages
    /\ budget \in DumpBudgets
    /\ probe = NoProbe
    /\ mcp = NoServer
    /\ Constructed

DumpSpec == DumpInit /\ [][Next]_vars

\* Ctrl-C while run() is executing: Python raises KeyboardInterrupt in the main
\* thread wherever it is (a blocking sleep or socket read included).  It is no
\* Exception, so the except clause of run() does not see it, and it leaves
\* run() for the except KeyboardInterrupt clause of main().
Interrupt ==
    /\ pc \in {"loop", "think", "attempt", "act", "dispatch", "check"}
    /\ pc' = "done"
    /\ outcome' = "raised"
    /\ retval' = <<"KeyboardInterrupt">>
    /\ UNCHANGED <<probe, mcp, budget, max_iterations, max_images, objective, iteration,
                   message_history, task_finished, task_result, observation, attempt,
                   response, callIdx, original_size, resized_size, sent, events, batch,
                   device, stats>>

InterruptibleNext == Next \/ Interrupt

\* the loop of DumpSpec with a user who may interrupt it
InterruptSpec == DumpInit /\ [][InterruptibleNext]_vars

\* The same loop in front of a provider that puts the sentinel texts where they
\* do not belong (in the text to type, in a package name, in a tool name, in
\* an argument task_complete does not have) or sends a task_complete whose
\* arguments do not decode.
SentinelCalls == {"done", "impossible", "done_badjson", "done_extra", "type_sentinel",
                  "launch_sentinel", "sentinel_tool", "back", "tap_10"}

SentinelBudgets == {[runs |-> 1, calls |-> 2, ratelimits |-> 0,
                     screens |-> {PortraitScreen}, tools |-> SentinelCalls]}

SentinelInit ==
    /\ max_iterations \in 0..MaxIterations
    /\ max_images \in 0..MaxImages
    /\ budget \in SentinelBudgets
    /\ probe = NoProbe
    /\ mcp = NoServer
    /\ Constructed

SentinelSpec == SentinelInit /\ [][Next]_vars

\* The interactive session of main(): the while loop calls run() on the same
\* Agent once per objective the user types, also after a run that raised (the
\* except clause around run() prints the error and the loop goes on).  Two
\* runs, in front of a provider that returns at most two task_complete calls
\* in the whole session.
SessionObjectives == {<<"Open settings">>, <<"Open the camera">>}

SessionBudgets == {[runs |-> 2, calls |-> 2, ratelimits |-> 0,
                    screens |-> {PortraitScreen}, tools |-> {"done"}]}

SessionInit ==
    /\ max_iterations \in 0..MaxIterations
    /\ max_images \in 0..MaxImages
    /\ budget \in SessionBudgets
    /\ probe = NoProbe
    /\ mcp = NoServer
    /\ Constructed

SessionNext == Next \/ \E obj \in SessionObjectives : Run(obj)

SessionSpec == SessionInit /\ [][SessionNext]_vars

----------------------------------------------------------------------------
(* The MCP server and the CLI's control command.  Both own one ToolExecutor
   and hand every tool name that is not their own to executor.execute.  The
   server handles its requests concurrently: get_screen runs
   _capture_screen_state in a worker thread (asyncio.to_thread) and an action
   tool runs executor.execute in another, both on the executor that
   get_executor() returns.  Each load and each store of an attribute of the
   executor is one step.  mcp holds the screen of the device, both handlers'
   positions and locals, where the executor's two sizes were stored from,
   and what was replied or printed. *)

\* where a stored size comes from: the screenshot of capture id, the
\* get_screen_size() query of call_tool, or the (460, 1024) literal
FromCapture(id) == [kind |-> "capture", id |-> id]
FromQuery == [kind |-> "query", id |-> 0]
FromDefault == [kind |-> "default", id |-> 0]
FromNowhere == [kind |-> "none", id |-> 0]

\* a number loaded from one of the executor's sizes, and where that size came from
Loaded(val, from) == [val |-> val, from |-> from]
NotLoaded == Loaded(0, FromNowhere)

\* the resized_size call_tool and control store next to get_screen_size()
DefaultResized == <<460, 1024>>

\* the tool names call_tool answers itself
ServerTools == {"get_screen", "list_devices", "opdroid_root_system_prompt"}

\* the action requests a client sends, keys of the catalogue of tool calls
McpCalls == {"tap_E10", "tap_10", "open_camera", "back"}

\* the commands a user passes to "opdroid control"
ControlCalls == {"tap_E10", "tap_10", "open_camera", "swipe_text", "wait_abc"}

\* the requests and commands of one behaviour
MaxCaptures == 2
MaxActions == 2
MaxControls == 1
MaxRotations == 1

IdleCapture == [pc |-> "idle", id |-> 0, raw |-> NoSize, resized |-> NoSize]
IdleAction == [pc |-> "idle", call |-> "none", ox |-> NotLoaded, rx |-> NotLoaded,
               oy |-> NotLoaded, ry |-> NotLoaded]

\* no conversion has been made yet
NoConversion == [made |-> FALSE, scaled |-> FALSE, ox |-> FromNowhere, rx |-> FromNowhere,
                 oy |-> FromNowhere, ry |-> FromNowhere]

\* the server process after main() of mcp_server, before its first request
ServerStarted ==
    [running |-> TRUE, screen |-> <<1080, 2400>>, rotations |-> MaxRotations,
     captures |-> 0, actions |-> MaxActions, controls |-> 0,
     cap |-> IdleCapture, act |-> IdleAction,
     origFrom |-> FromNowhere, reszFrom |-> FromNowhere,
     conv |-> NoConversion, replies |-> <<>>]

\* no server: the user is about to run "opdroid control"
ControlStarted ==
    [ServerStarted EXCEPT !.captures = MaxCaptures, !.actions = 0, !.controls = MaxControls]

\* A ValueError among the exceptions of execute: the unknown name of execute,
\* the invalid cell of grid_cell_to_pixels, int() of a text that is no number
\* and time.sleep of a negative number.  An unbound argument is a TypeError
\* and a failing device an AdbError.
IsValueError(e) ==
    e[1] \in {"Unknown tool: ", "Invalid cell format: ",
              "invalid literal for int() with base 10: '",
              "sleep length must be non-negative"}

\* the try statement around executor.execute in call_tool
call_tool_reply(name, r) ==
    IF ~r.raised THEN r.value
    ELSE IF IsValueError(r.value) THEN <<"Unknown tool: ", name>>
    ELSE ErrorText(name, r.value)

\* the try statement around executor.execute in control (the check mark is
\* written "<check>", the cross is left out)
control_reply(name, r) ==
    IF ~r.raised THEN <<"<check>", " ">> \o r.value
    ELSE IF IsValueError(r.value) THEN <<"Unknown command: ", name>>
    ELSE <<"Error: ">> \o r.value

Reply(via, name, text, failed) == [via |-> via, name |-> name, text |-> text, failed |-> failed]

mcpFrame == <<max_iterations, max_images, pc, objective, iteration, message_history,
              task_finished, task_result, observation, attempt, response, callIdx,
              outcome, retval, sent, events, batch, stats, budget, probe>>

\* the user turns the device: the next screenshot and the next query have
\* width and height exchanged
Rotate ==
    /\ mcp.running /\ mcp.rotations > 0
    /\ mcp' = [mcp EXCEPT !.rotations = @ - 1, !.screen = <<@[2], @[1]>>]
    /\ UNCHANGED <<mcpFrame, original_size, resized_size, device>>

\* call_tool("get_screen"): _capture_screen_state starts in a worker thread,
\* takes the screenshot and resizes it
GetScreen ==
    /\ mcp.running /\ mcp.cap.pc = "idle" /\ mcp.captures < MaxCaptures
    /\ mcp' = [mcp EXCEPT !.captures = @ + 1,
                          !.cap = [pc |-> "store_original", id |-> mcp.captures + 1,
                                   raw |-> mcp.screen,
                                   resized |-> resize_image(mcp.screen, max_size)]]
    /\ UNCHANGED <<mcpFrame, original_size, resized_size, device>>

\* executor.original_size = original_size
StoreOriginal ==
    /\ mcp.running /\ mcp.cap.pc = "store_original"
    /\ original_size' = mcp.cap.raw
    /\ mcp' = [mcp EXCEPT !.cap.pc = "store_resized", !.origFrom = FromCapture(mcp.cap.id)]
    /\ UNCHANGED <<mcpFrame, resized_size, device>>

\* executor.resized_size = resized_size
StoreResized ==
    /\ mcp.running /\ mcp.cap.pc = "store_resized"
    /\ resized_size' = mcp.cap.resized
    /\ mcp' = [mcp EXCEPT !.cap.pc = "reply", !.reszFrom = FromCapture(mcp.cap.id)]
    /\ UNCHANGED <<mcpFrame, original_size, device>>

\* the rest of _capture_screen_state and the reply of get_screen: the image
\* with the grid and the element list
ScreenReply ==
    /\ mcp.running /\ mcp.cap.pc = "reply"
    /\ mcp' = [mcp EXCEPT !.cap = IdleCapture,
                          !.replies = Append(@, Reply("mcp", "get_screen",
                                                     <<"## Interactive UI Elements">>, FALSE))]
    /\ UNCHANGED <<mcpFrame, original_size, resized_size, device>>

\* call_tool with an action tool: get_executor(), get_controller() and the
\* load of executor.original_size for "is None"
ActionRequest(k) ==
    /\ mcp.running /\ mcp.act.pc = "idle" /\ mcp.actions > 0
    /\ mcp' = [mcp EXCEPT !.actions = @ - 1,
                          !.act = [IdleAction EXCEPT
                                      !.call = k,
                                      !.pc = IF original_size = NoSize
                                             THEN "default_original" ELSE "execute"]]
    /\ UNCHANGED <<mcpFrame, original_size, resized_size, device>>

\* executor.original_size = controller.get_screen_size()
DefaultOriginal ==
    /\ mcp.running /\ mcp.act.pc = "default_original"
    /\ original_size' = mcp.screen
    /\ mcp' = [mcp EXCEPT !.act.pc = "default_resized", !.origFrom = FromQuery]
    /\ UNCHANGED <<mcpFrame, resized_size, device>>

\* executor.resized_size = (460, 1024)
DefaultResize ==
    /\ mcp.running /\ mcp.act.pc = "default_resized"
    /\ resized_size' = DefaultResized
    /\ mcp' = [mcp EXCEPT !.act.pc = "execute", !.reszFrom = FromDefault]
    /\ UNCHANGED <<mcpFrame, original_size, device>>

\* the call is a tap whose cell grid_cell_to_pixels accepts
ConvertsCell(k) ==
    /\ CallName(k) = "tap"
    /\ ArgsBind("tap", coerce_arguments("tap", CallArgs(k)))
    /\ CellFormatValid(CallArgs(k).cell)

\* asyncio.to_thread(executor.execute, name, arguments) up to the first load
\* of _cell_to_device_pixels; a call that converts no cell is executed whole
\* and answered
Execute(fails) ==
    /\ mcp.running /\ mcp.act.pc = "execute"
    /\ IF ConvertsCell(mcp.act.call)
       THEN /\ fails = 0
            /\ mcp' = [mcp EXCEPT !.act.pc = "test_original"]
            /\ UNCHANGED device
       ELSE \E r \in {execute(CallName(mcp.act.call), CallArgs(mcp.act.call),
                              original_size, resized_size, fails)} :
                /\ fails <= DeviceCommands(mcp.act.call)
                /\ device' = device \o r.dev
                /\ mcp' = [mcp EXCEPT
                              !.act = IdleAction,
                              !.replies = Append(@, Reply("mcp", CallName(mcp.act.call),
                                                    call_tool_reply(CallName(mcp.act.call), r),
                                                    r.raised))]
    /\ UNCHANGED <<mcpFrame, original_size, resized_size>>

\* "if self.original_size and self.resized_size": the first operand
TestOriginal ==
    /\ mcp.running /\ mcp.act.pc = "test_original"
    /\ mcp' = [mcp EXCEPT !.act.pc = IF original_size = NoSize THEN "tap" ELSE "test_resized"]
    /\ UNCHANGED <<mcpFrame, original_size, resized_size, device>>

\* the second operand; a size that is still None leaves the pixel unscaled
TestResized ==
    /\ mcp.running /\ mcp.act.pc = "test_resized"
    /\ mcp' = [mcp EXCEPT !.act.pc = IF resized_size = NoSize THEN "tap" ELSE "load_ox"]
    /\ UNCHANGED <<mcpFrame, original_size, resized_size, device>>

\* scale_x = self.original_size[0] / self.resized_size[0]: the left operand
LoadOriginalX ==
    /\ mcp.running /\ mcp.act.pc = "load_ox"
    /\ mcp' = [mcp EXCEPT !.act.pc = "load_rx",
                          !.act.ox = Loaded(original_size[1], mcp.origFrom)]
    /\ UNCHANGED <<mcpFrame, original_size, resized_size, device>>

\* the right operand
LoadResizedX ==
    /\ mcp.running /\ mcp.act.pc = "load_rx"
    /\ mcp' = [mcp EXCEPT !.act.pc = "load_oy",
                          !.act.rx = Loaded(resized_size[1], mcp.reszFrom)]
    /\ UNCHANGED <<mcpFrame, original_size, resized_size, device>>

\* scale_y = self.original_size[1] / self.resized_size[1]: the left operand
LoadOriginalY ==
    /\ mcp.running /\ mcp.act.pc = "load_oy"
    /\ mcp' = [mcp EXCEPT !.act.pc = "load_ry",
                          !.act.oy = Loaded(original_size[2], mcp.origFrom)]
    /\ UNCHANGED <<mcpFrame, original_size, resized_size, device>>

\* the right operand
LoadResizedY ==
    /\ mcp.running /\ mcp.act.pc = "load_ry"
    /\ mcp' = [mcp EXCEPT !.act.pc = "tap",
                          !.act.ry = Loaded(resized_size[2], mcp.reszFrom)]
    /\ UNCHANGED <<mcpFrame, original_size, resized_size, device>>

\* the sizes the conversion of the tap in flight works with
LoadedOriginal == <<mcp.act.ox.val, mcp.act.oy.val>>
LoadedResized == <<mcp.act.rx.val, mcp.act.ry.val>>

\* the rest of _tap: the pixel is scaled with the loaded numbers,
\* controller.tap sends it, and call_tool replies
TapLoaded(fails) ==
    /\ mcp.running /\ mcp.act.pc = "tap"
    /\ \E scaled \in {mcp.act.ry.from.kind # "none"} :
       \E r \in {IF scaled
                 THEN tool_tap(CallArgs(mcp.act.call), LoadedOriginal, LoadedResized, fails)
                 ELSE tool_tap(CallArgs(mcp.act.call), NoSize, NoSize, fails)} :
          /\ device' = device \o r.dev
          /\ mcp' = [mcp EXCEPT
                        !.act = IdleAction,
                        !.conv = [made |-> TRUE, scaled |-> scaled,
                                  ox |-> mcp.act.ox.from, rx |-> mcp.act.rx.from,
                                  oy |-> mcp.act.oy.from, ry |-> mcp.act.ry.from],
                        !.replies = Append(@, Reply("mcp", "tap",
                                                    call_tool_reply("tap", r), r.raised))]
    /\ UNCHANGED <<mcpFrame, original_size, resized_size>>

\* call_tool with list_devices or opdroid_root_system_prompt: answered without
\* the executor
ServerTool(name) ==
    /\ mcp.running /\ mcp.actions > 0 /\ mcp.act.pc = "idle"
    /\ mcp' = [mcp EXCEPT !.actions = @ - 1,
                          !.replies = Append(@, Reply("mcp", name, <<name>>, FALSE))]
    /\ UNCHANGED <<mcpFrame, original_size, resized_size, device>>

\* "opdroid control": a process of its own with its own executor, whose sizes
\* are get_screen_size() and (460, 1024); it executes one command on the same
\* device and prints one line
Control(k, fails) ==
    /\ mcp.running /\ mcp.controls > 0
    /\ fails <= DeviceCommands(k)
    /\ \E r \in {execute(CallName(k), CallArgs(k), mcp.screen, DefaultResized, fails)} :
          /\ device' = device \o r.dev
          /\ mcp' = [mcp EXCEPT
                        !.controls = @ - 1,
                        !.replies = Append(@, Reply("cli", CallName(k),
                                                    control_reply(CallName(k), r), r.raised))]
    /\ UNCHANGED <<mcpFrame, original_size, resized_size>>

McpNext ==
    \/ Rotate
    \/ GetScreen
    \/ StoreOriginal
    \/ StoreResized
    \/ ScreenReply
    \/ \E k \in McpCalls : ActionRequest(k)
    \/ DefaultOriginal
    \/ DefaultResize
    \/ \E fails \in 0..1 : Execute(fails)
    \/ TestOriginal
    \/ TestResized
    \/ LoadOriginalX
    \/ LoadResizedX
    \/ LoadOriginalY
    \/ LoadResizedY
    \/ \E fails \in 0..1 : TapLoaded(fails)
    \/ \E name \in {"list_devices", "opdroid_root_system_prompt"} : ServerTool(name)
    \/ \E k \in ControlCalls, fails \in 0..1 : Control(k, fails)

McpInit ==
    /\ max_iterations = 0
    /\ max_images = 0
    /\ budget = [runs |-> 0, calls |-> 0, ratelimits |-> 0, screens |-> {}, tools |-> {}]
    /\ probe = NoProbe
    /\ mcp \in {ServerStarted, ControlStarted}
    /\ Constructed

McpSpec == McpInit /\ [][McpNext]_vars

----------------------------------------------------------------------------
(* The library functions on their own: the coordinate engine, the executor's
   scaling and the compactor, each called once on an input drawn from a
   bounded set.  probe holds the function, its input and, once the call is
   made, its result. *)

agentVars == <<max_iterations, max_images, pc, objective, iteration, message_history,
               task_finished, task_result, observation, attempt, response, callIdx,
               original_size, resized_size, outcome, retval, sent, events, batch, device,
               stats, budget>>

Pending(fn, arg) == [fn |-> fn, arg |-> arg, out |-> <<>>, done |-> FALSE]

CellSizes == (1..MaxCellSize) \cup {CELL_SIZE}

\* the cell of column col and row row as the grid labels it
CellOf(col, row) == get_column_label(col) \o Str(row)

\* cells as the model writes them: upper case, and lower case for the one-letter columns
CellInputs ==
    {[cell |-> CellOf(c, r), col |-> c, row |-> r] : c \in 0..MaxCellColumn, r \in 0..MaxCellRow}
    \cup {[cell |-> <<LowerLetters[c + 1]>> \o Str(r), col |-> c, row |-> r] :
             c \in 0..4, r \in 1..MaxCellRow}

\* the sizes the executor may hold: none, or those of an observed screen
SizePairs ==
    {<<NoSize, NoSize>>} \cup {<<s.raw, resize_image(s.raw, max_size)>> : s \in Screens}

\* the elements of the dumps: clickable or not, scrollable or not, with a
\* box that has an area, a box without one, an unreadable bounds text, or no
\* bounds attribute
ElementSamples(id, children) ==
    {Element(<<"android", ".", "widget", ".", "Button">>, <<>>, <<"Toggle history">>,
             <<"com.app:id", "/", id>>, c, s, b, children) :
        c \in {"true", "false"}, s \in {"true", "false"},
        b \in {<<>>, BoundsText(0, 0, 0, 0), BoundsText(0, 42, 1080, 177), <<"unknown">>}}

\* the dumps: <hierarchy> with two children, the first of which has a child
DumpInputs ==
    {Element(<<"hierarchy">>, <<>>, <<>>, <<>>, "false", "false", <<>>, <<first, third>>) :
        first \in UNION {ElementSamples("first", <<second>>) :
                             second \in ElementSamples("second", <<>>)},
        third \in {e \in ElementSamples("third", <<>>) : e.scrollable = "false"}}

\* an older device whose screenshot is not resized
LowResScreen == [raw |-> <<480, 800>>, dump |-> "elements"]

\* the screens of the library calls, each with the display size and the grid
\* its observation has
GridScreens ==
    {[raw |-> s.raw, resized |-> Observe(s.raw, s.dump).resized_size,
      cols |-> Observe(s.raw, s.dump).grid_cols, rows |-> Observe(s.raw, s.dump).grid_rows] :
        s \in Screens \cup {LowResScreen}}

\* bounding boxes inside the raw screen: corners at the edges of the screen,
\* near them and in the middle
BoxInputs ==
    UNION {{[bounds |-> BoundsText(x1, y1, x2, y2), box |-> <<x1, y1, x2, y2>>, screen |-> g] :
               x1 \in {0, g.raw[1] \div 2, g.raw[1] - 80},
               x2 \in {g.raw[1] \div 2, g.raw[1] - 80, g.raw[1]},
               y1 \in {0, 42, g.raw[2] - 100},
               y2 \in {177, g.raw[2] - 100, g.raw[2]}} : g \in GridScreens}

\* the boxes whose corners are in order
OrderedBoxes == {b \in BoxInputs : b.box[1] <= b.box[3] /\ b.box[2] <= b.box[4]}

\* every cell of the grid of a screen, and the cells of the strip of the
\* image to the right of the last column and below the last row
GridCellInputs ==
    UNION {{[cell |-> CellOf(c, r), col |-> c, row |-> r, screen |-> g] :
               c \in 0..g.cols, r \in 1..(g.rows + 1)} : g \in GridScreens}

LibInit ==
    /\ max_iterations = 0
    /\ max_images = 0
    /\ budget = [runs |-> 0, calls |-> 0, ratelimits |-> 0, screens |-> {}, tools |-> {}]
    /\ mcp = NoServer
    /\ Constructed
    /\ \/ probe \in {Pending("get_column_label", n) : n \in 0..MaxColumn}
       \/ probe \in {Pending("grid_cell_to_pixels", [cell |-> c, cell_size |-> cs]) :
                        c \in CellInputs, cs \in CellSizes}
       \/ probe \in {Pending("pixels_to_grid_cell", [x |-> x, y |-> y, cell_size |-> cs]) :
                        x \in 0..MaxColumn, y \in {0, MaxCellRow, CELL_SIZE},
                        cs \in CellSizes}
       \/ probe \in {Pending("cell_to_device_pixels", [cell |-> c, sizes |-> sz]) :
                        c \in {i \in CellInputs : i.row >= 1 /\ i.col <= 25},
                        sz \in SizePairs}
       \/ probe \in {Pending("parse_ui_hierarchy", d) : d \in DumpInputs}
       \/ probe \in {Pending("bounds_to_cell_info", b) : b \in OrderedBoxes}
       \/ probe \in {Pending("tap", c) : c \in GridCellInputs}

\* get_column_label(n), and the label read back by the column parse of
\* grid_cell_to_pixels
CallGetColumnLabel ==
    /\ probe.fn = "get_column_label" /\ ~probe.done
    /\ \E label \in {get_column_label(probe.arg)} :
          probe' = [probe EXCEPT !.done = TRUE,
                                 !.out = [label |-> label,
                                          parsed |-> ColumnIndex(AlphaPart(label))]]
    /\ UNCHANGED <<agentVars, mcp>>

\* grid_cell_to_pixels(cell, cell_size): the pixel, or the ValueError
CallGridCellToPixels ==
    /\ probe.fn = "grid_cell_to_pixels" /\ ~probe.done
    /\ probe' = [probe EXCEPT !.done = TRUE,
                              !.out = IF CellFormatValid(probe.arg.cell.cell)
                                      THEN grid_cell_to_pixels(probe.arg.cell.cell,
                                                               probe.arg.cell_size)
                                      ELSE <<"ValueError">>]
    /\ UNCHANGED <<agentVars, mcp>>

\* pixels_to_grid_cell(x, y, cell_size), and grid_cell_to_pixels of the cell it gives
CallPixelsToGridCell ==
    /\ probe.fn = "pixels_to_grid_cell" /\ ~probe.done
    /\ \E cell \in {pixels_to_grid_cell(probe.arg.x, probe.arg.y, probe.arg.cell_size)} :
          probe' = [probe EXCEPT !.done = TRUE,
                                 !.out = [cell |-> cell,
                                          back |-> IF CellFormatValid(cell)
                                                   THEN grid_cell_to_pixels(cell,
                                                                            probe.arg.cell_size)
                                                   ELSE <<"ValueError">>]]
    /\ UNCHANGED <<agentVars, mcp>>

\* ToolExecutor._cell_to_device_pixels(cell) with the executor holding sizes
CallCellToDevicePixels ==
    /\ probe.fn = "cell_to_device_pixels" /\ ~probe.done
    /\ probe' = [probe EXCEPT !.done = TRUE,
                              !.out = cell_to_device_pixels(probe.arg.cell.cell,
                                                            probe.arg.sizes[1],
                                                            probe.arg.sizes[2])]
    /\ UNCHANGED <<agentVars, mcp>>

\* parse_ui_hierarchy(xml, original_size, resized_size) on a dump of the portrait screen
CallParseUiHierarchy ==
    /\ probe.fn = "parse_ui_hierarchy" /\ ~probe.done
    /\ probe' = [probe EXCEPT !.done = TRUE,
                              !.out = parse_ui_hierarchy(probe.arg, PortraitScreen.raw,
                                                         resize_image(PortraitScreen.raw,
                                                                      max_size))]
    /\ UNCHANGED <<agentVars, mcp>>

\* bounds_to_cell_info(bounds_str, original_size, resized_size) with the sizes
\* of an observation of the screen
CallBoundsToCellInfo ==
    /\ probe.fn = "bounds_to_cell_info" /\ ~probe.done
    /\ probe' = [probe EXCEPT !.done = TRUE,
                              !.out = bounds_to_cell_info(probe.arg.bounds, probe.arg.screen.raw,
                                                          probe.arg.screen.resized, CELL_SIZE)]
    /\ UNCHANGED <<agentVars, mcp>>

\* ToolExecutor._tap(cell) on a device that does not fail, the executor holding
\* the sizes of an observation of the screen: the command sent to the device
CallTap ==
    /\ probe.fn = "tap" /\ ~probe.done
    /\ \E r \in {tool_tap([cell |-> probe.arg.cell], probe.arg.screen.raw,
                            probe.arg.screen.resized, 0)} :
          probe' = [probe EXCEPT !.done = TRUE, !.out = r.dev[1]]
    /\ UNCHANGED <<agentVars, mcp>>

LibNext ==
    \/ CallGetColumnLabel
    \/ CallGridCellToPixels
    \/ CallPixelsToGridCell
    \/ CallCellToDevicePixels
    \/ CallParseUiHierarchy
    \/ CallBoundsToCellInfo
    \/ CallTap

LibSpec == LibInit /\ [][LibNext]_vars

----------------------------------------------------------------------------
(* Vocabulary of the properties *)

LastTurn(h) == h[Len(h)]

\* positions of the turns of h that carry image content
ImageTurns(h) == {i \in 1..Len(h) : HasImage(h[i])}

\* the turn carries a full UI-hierarchy block
CarriesHierarchy(msg) ==
    \/ msg.content.kind = "str" /\ HasHierarchy(msg.content.text)
    \/ /\ msg.content.kind = "list"
       /\ \E i \in 1..Len(msg.content.items) : HasHierarchy(msg.content.items[i].text)

HierarchyTurns(h) == {i \in 1..Len(h) : CarriesHierarchy(h[i])}

\* positions of the observation turns of h, degraded or not: the user turns after the objective
ObservationTurns(h) == {i \in 3..Len(h) : h[i].role = "user"}

MaxOf(S) == CHOOSE x \in S : \A y \in S : y <= x

\* positions of the task_complete / task_impossible calls of a response
TerminalCalls(calls) ==
    {i \in 1..Len(calls) : CallName(calls[i]) \in {"task_complete", "task_impossible"}}

\* the summary or the reason given by the last terminal call of a response
LastTerminalText(calls) ==
    LET k == calls[MaxOf(TerminalCalls(calls))]
    IN IF CallName(k) = "task_complete" THEN CallArgs(k).summary ELSE CallArgs(k).reason

\* sent is the window of a model call of the current iteration, whose
\* observation is the one in observation
WindowIsCurrent ==
    \/ pc \in {"act", "dispatch", "check"}
    \/ pc = "attempt" /\ \E i \in 1..Len(events) : events[i].ev = "call"

RunReturned == pc = "done" /\ outcome = "returned"
RunRaised == pc = "done" /\ outcome = "raised"

\* events of the current _think: the sleeps, the completion calls, the calls that raised exc
CallsOf(log) == SelectSeq(log, LAMBDA e : e.ev = "call")
RaisesOf(log, exc) == SelectSeq(log, LAMBDA e : e.ev = "call" /\ e.kind = exc)

----------------------------------------------------------------------------
(* Properties *)

\* C1: when run() returns after a response with a terminal call, the value it
\* returns is exactly the summary (task_complete) or the reason (task_impossible)
\* given by the last terminal call of that response, the empty string included.
C1_ReturnsExactlyTheText ==
    (RunReturned /\ TerminalCalls(response) # {}) => retval = LastTerminalText(response)

\* C2: a run that returns without a terminal result has performed exactly
\* max_iterations iterations, each with one observation and one successful
\* model call, and returns the max-iterations notice; with max_iterations = 0
\* it has neither observed the device nor called the model.
C2_ExactlyMaxIterations ==
    (RunReturned /\ ~task_finished) =>
        /\ iteration = max_iterations
        /\ stats.observes = max_iterations
        /\ stats.ok = max_iterations
        /\ retval = <<"Max iterations (", ToString(max_iterations),
                      ") reached without completion">>
        /\ max_iterations = 0 => (stats.calls = 0 /\ device = <<>> /\ Len(message_history) = 2)

C2_Witness ==
    /\ RunReturned /\ ~task_finished
    /\ max_iterations = 2
    /\ stats.calls > stats.ok
    /\ stats.dispatched > 0

\* C3: every run terminates, by returning after a terminal result, by
\* returning the max-iterations notice, or by raising; and it never makes more
\* than 4 model calls per iteration of its budget.
C3_RunTerminates ==
    /\ (pc = "loop") ~> (pc = "done")
    /\ [](stats.calls <= 4 * max_iterations)
    /\ [](pc = "done" =>
            \/ outcome = "returned" /\ task_finished /\ retval # None
            \/ outcome = "returned" /\ ~task_finished
                                    /\ retval = MaxIterationsNotice(max_iterations)
            \/ outcome = "raised"
               /\ retval \in {<<"AdbError">>, <<"RateLimitError">>, <<"APIError">>,
                              <<"ValueError">>})

C3_Witness == RunRaised /\ max_iterations = 1 /\ stats.calls = 4

\* C4: the message list handed to a model call, on the first attempt and on
\* every retry, has at most max_images turns that carry image content.
C4_AtMostMaxImages == Cardinality(ImageTurns(sent)) <= max_images

C4_Witness ==
    /\ pc = "attempt" /\ attempt >= 1
    /\ max_images = 2
    /\ Cardinality(ImageTurns(sent)) = 2
    /\ Cardinality(ObservationTurns(sent)) = 3

BackoffsOf(log) ==
    LET w == SelectSeq(log, LAMBDA e : e.ev = "sleep" /\ e.kind = "backoff")
    IN [i \in 1..Len(w) |-> w[i].dur]

\* how the completion calls of a _think ended, in order
CallKinds(log) == [i \in 1..Len(CallsOf(log)) |-> CallsOf(log)[i].kind]

\* the number of rate-limited calls among the first i events: the attempt index
\* of the next call
RateLimitsBefore(log, i) ==
    Cardinality({j \in 1..(i - 1) : log[j].ev = "call" /\ log[j].kind = "RateLimitError"})

\* positions of the rate-limited calls of the log that were followed by a wait
WaitedAt(log) ==
    {i \in 1..(Len(log) - 1) : /\ log[i].ev = "call" /\ log[i].kind = "RateLimitError"
                               /\ log[i + 1].ev = "sleep"}

\* C6: the step on which the third call of a _think succeeds, after two calls
\* that were rate limited with a text that carries no suggested wait, returns
\* that response into _act (it is recorded as the assistant turn and nothing
\* is raised), and the backoff sleeps made were 5 s and then 10 s; each call
\* is in addition preceded by the 2 s pacing sleep.
C6_TwoRateLimitsThenSuccess ==
    [][(/\ pc = "attempt"
        /\ Len(events') > Len(events)
        /\ CallKinds(events') = <<"RateLimitError", "RateLimitError", "ok">>
        /\ \A i \in 1..Len(events') : ~HasSuggestedWait(events'[i].text)) =>
           /\ pc' = "act"
           /\ outcome' = "none"
           /\ BackoffsOf(events') = <<50, 100>>
           /\ LastTurn(message_history') = AssistantTurn(response')
           /\ [i \in 1..Len(events') |-> events'[i].ev] =
                 <<"sleep", "call", "sleep", "sleep", "call", "sleep", "sleep", "call">>]_vars

C6_Witness ==
    /\ pc = "act"
    /\ CallKinds(events) = <<"RateLimitError", "RateLimitError", "ok">>
    /\ \A i \in 1..Len(events) : ~HasSuggestedWait(events[i].text)
    /\ response # <<>>
    /\ BackoffsOf(events) = <<50, 100>>

\* C7 as stated: the wait after a rate-limited attempt a is the suggested wait
\* of the error text when it carries one, and base * 2^a otherwise.
C7_WaitIsSuggestedOrBackoff ==
    \A i \in WaitedAt(events) :
        events[i + 1].dur =
            IF HasSuggestedWait(events[i].text)
            THEN ParseFloat(SuggestedWait(events[i].text))
            ELSE Seconds(5 * 2 ^ RateLimitsBefore(events, i))

\* C7, amended: the wait after a rate-limited attempt a is the suggested wait
\* plus one second when the error text carries one, and base * 2^a otherwise;
\* a text whose suggested wait is not a decimal number is never waited on, the
\* handler raises ValueError out of run() instead.
C7_WaitIsSuggestedPlusOneOrBackoff ==
    /\ \A i \in WaitedAt(events) :
          /\ events[i + 1].kind = "backoff"
          /\ events[i + 1].dur =
                IF HasSuggestedWait(events[i].text)
                THEN ParseFloat(SuggestedWait(events[i].text)) + Seconds(1)
                ELSE Seconds(5 * 2 ^ RateLimitsBefore(events, i))
          /\ HasSuggestedWait(events[i].text) => FloatValid(SuggestedWait(events[i].text))
    /\ \A i \in 1..Len(events) :
          (/\ events[i].ev = "call" /\ events[i].kind = "RateLimitError"
           /\ RateLimitsBefore(events, i) < 3
           /\ HasSuggestedWait(events[i].text)
           /\ ~FloatValid(SuggestedWait(events[i].text))) =>
              (i = Len(events) /\ RunRaised /\ retval = <<"ValueError">>)

C7_Witness ==
    /\ BackoffsOf(events) = <<50, 25, 200>>
    /\ \E i \in WaitedAt(events) : events[i].text[Len(events[i].text)] = "s"
                                   /\ ~HasSuggestedWait(events[i].text)

\* C8: when all 4 calls of a _think are rate limited, the error is raised out
\* of run(): the 4th failure is the last thing that happened (no sleep after
\* it, no 5th call), exactly 3 backoff sleeps were made, no tool call of this
\* iteration was dispatched, the window ends with the observation turn, and the
\* run is over.
C8_RateLimitExhausted ==
    (Len(RaisesOf(events, "RateLimitError")) >= 4) =>
        /\ RunRaised /\ retval = <<"RateLimitError">>
        /\ Len(CallsOf(events)) = 4
        /\ events[Len(events)].ev = "call"
        /\ Len(BackoffsOf(events)) = 3
        /\ batch = <<>>
        /\ LastTurn(message_history).role = "user"
        /\ Cardinality(ObservationTurns(message_history)) = iteration

C8_Witness ==
    /\ Len(RaisesOf(events, "RateLimitError")) = 4
    /\ RunRaised
    /\ BackoffsOf(events) = <<50, 100, 200>>

\* C9: a completion call that fails with an error other than the rate limit
\* is the last event of the run: no sleep and no call follow it, the run has
\* raised that error, no tool call of the iteration was dispatched, and the
\* window ends with the observation turn.
C9_OtherProviderErrorIsFatal ==
    \A i \in 1..Len(events) :
        (events[i].ev = "call" /\ events[i].kind \notin {"ok", "RateLimitError"}) =>
            /\ i = Len(events)
            /\ RunRaised /\ retval = <<events[i].kind>>
            /\ batch = <<>>
            /\ LastTurn(message_history).role = "user"
            /\ Cardinality(ObservationTurns(message_history)) = iteration

C9_Witness ==
    /\ RunRaised /\ retval = <<"APIError">>
    /\ CallKinds(events) = <<"RateLimitError", "APIError">>
    /\ iteration < max_iterations

\* the turns of the window recorded by _act for the current response: those
\* after the last assistant turn
ActTurns(h) ==
    LET a == MaxOf({i \in 1..Len(h) : h[i].role = "assistant"})
    IN SubSeq(h, a + 1, Len(h))

\* C10: a tool call whose dispatch raised has an error-text tool turn under
\* its own id at its own position; the calls after it are dispatched all the
\* same (the batch is complete once _act is over), and the failure does not
\* end the run: the run goes on to the next iteration unless a terminal call
\* finished the task or the iterations are used up.
C10_FailedDispatchIsRecorded ==
    (batch # <<>>) =>
        /\ Len(ActTurns(message_history)) = Len(batch)
        /\ \A i \in 1..Len(batch) :
              batch[i].raised =>
                 LET turn == ActTurns(message_history)[i]
                 IN /\ turn.role = "tool"
                    /\ turn.tool_call_id = <<iteration, i>>
                    /\ turn.content.kind = "str"
                    /\ StartsWith(turn.content.text,
                                  <<"Error executing ", CallName(batch[i].call), ": ">>)
        /\ \A i \in 1..Len(batch) : batch[i].call = response[i]
        /\ pc = "dispatch" => (callIdx = Len(batch) + 1 /\ callIdx <= Len(response))
        /\ pc # "dispatch" => Len(batch) = Len(response)
        /\ pc \in {"dispatch", "check", "loop", "done"}
        /\ pc = "loop" => ~task_finished
        /\ pc = "done" => /\ outcome = "returned"
                          /\ (task_finished \/ iteration = max_iterations)

C10_Witness ==
    /\ pc = "loop"
    /\ iteration < max_iterations
    /\ Len(batch) = 2
    /\ batch[1].raised /\ ~batch[2].raised
    /\ device # <<>>

\* argument payloads a call may carry, among them ones the coercion pass of
\* execute would rewrite
ArgumentSamples ==
    {[p \in {} |-> <<>>], [seconds |-> <<"3">>], [duration_ms |-> <<"300">>],
     [cell |-> <<"E", "1", "0">>], [summary |-> <<"Opened settings">>]}

\* C11: execute with a name outside the 12 tool names raises "Unknown tool:
\* <name>" whatever the arguments are (the name is tested first, before the
\* arguments are looked at) and delivers no device action; in the loop the
\* call gets a tool turn under its own id with the error text, the device
\* receives nothing from it, and the run is not ended by it.
C11_UnknownToolIsReported ==
    /\ Cardinality(ToolNames) = 12
    /\ \A name \in {"open_camera", "nonexistent_tool"}, args \in ArgumentSamples,
          fails \in 0..1 :
          execute(name, args, original_size, resized_size, fails)
              = [raised |-> TRUE, value |-> <<"Unknown tool: ", name>>, dev |-> <<>>]
    /\ \A i \in 1..Len(batch) :
          CallName(batch[i].call) \notin ToolNames =>
             /\ batch[i].raised
             /\ batch[i].dev = <<>>
             /\ ActTurns(message_history)[i] =
                    [role |-> "tool",
                     content |-> StrContent(<<"Error executing ", CallName(batch[i].call), ": ",
                                              "Unknown tool: ", CallName(batch[i].call)>>),
                     tool_calls |-> <<>>,
                     tool_call_id |-> <<iteration, i>>]
             /\ pc \in {"dispatch", "check", "loop", "done"}
             /\ pc = "dispatch" => callIdx = Len(batch) + 1
             /\ pc # "dispatch" => Len(batch) = Len(response)
             /\ pc = "done" => outcome = "returned"

C11_Witness ==
    /\ pc = "loop"
    /\ iteration < max_iterations
    /\ Len(batch) = 2
    /\ batch[1].call = "open_camera" /\ batch[1].raised
    /\ batch[2].call = "tap_E10" /\ ~batch[2].raised
    /\ device = <<<<"input tap", 422, 890>>>>

\* the tool turns of the current batch recorded under the id of its i-th call
TurnsOfCall(h, iter, i) ==
    {j \in 1..Len(h) : h[j].role = "tool" /\ h[j].tool_call_id = <<iter, i>>}

\* C12: a tool call whose argument text is not valid JSON is dispatched with
\* empty arguments: it has exactly one tool turn, under its own id, holding
\* the result of the handler called without arguments or the error text of
\* that call, and the batch is not cut short by it (the calls after it are
\* dispatched, each with its own turn).
C12_MalformedPayloadIsDispatchedEmpty ==
    (batch # <<>>) =>
        /\ \A i \in 1..Len(batch) :
              ~CallPayload(batch[i].call).complete =>
                 /\ batch[i].args = [p \in {} |-> <<>>]
                 /\ Cardinality(TurnsOfCall(message_history, iteration, i)) = 1
                 /\ ActTurns(message_history)[i].tool_call_id = <<iteration, i>>
                 /\ ActTurns(message_history)[i].content.text \in
                        {ToolResultText(CallName(batch[i].call),
                                        execute(CallName(batch[i].call), [p \in {} |-> <<>>],
                                                batch[i].orig, batch[i].resz, fails)) :
                            fails \in 0..1}
                 /\ CallName(batch[i].call) = "tap" =>
                        /\ batch[i].raised /\ batch[i].dev = <<>>
                        /\ StartsWith(ActTurns(message_history)[i].content.text,
                                      <<"Error executing ", "tap", ": ">>)
        /\ Len(ActTurns(message_history)) = Len(batch)
        /\ \A i \in 1..Len(batch) : batch[i].call = response[i]
        /\ pc = "dispatch" => (callIdx = Len(batch) + 1 /\ callIdx <= Len(response))
        /\ pc # "dispatch" => Len(batch) = Len(response)

C12_Witness ==
    /\ pc = "check"
    /\ Len(batch) = 2
    /\ batch[1].call = "tap_badjson" /\ batch[1].raised
    /\ batch[2].call = "home_badjson" /\ ~batch[2].raised
    /\ device = <<<<"input keyevent", 3>>>>
    /\ LastTurn(message_history).content.text = <<"Pressed key: ", "3">>

\* C13: a run is strictly sequential.  In every iteration the observation
\* comes first, the model call returns next (no tool call of the iteration has
\* been dispatched before it), and the tool calls follow; they are dispatched
\* one per step, in the order of the response; and the next iteration (its
\* Observe) starts only from the loop head, when every tool call of the
\* response has been dispatched.
C13_StrictlySequential ==
    /\ [](/\ pc \in {"think", "attempt"} =>
              (stats.observes = iteration /\ stats.ok = iteration - 1 /\ batch = <<>>)
          /\ pc \in {"act", "dispatch", "check"} =>
              (stats.observes = iteration /\ stats.ok = iteration)
          /\ pc = "act" => batch = <<>>
          /\ Len(batch) <= Len(response)
          /\ \A i \in 1..Len(batch) : batch[i].call = response[i])
    /\ [][/\ iteration' # iteration =>
                /\ pc = "loop"
                /\ iteration' = iteration + 1
                /\ Len(batch) = Len(response)
                /\ stats.dispatched = stats.dispatched'
          /\ stats.ok' # stats.ok =>
                /\ pc = "attempt" /\ pc' = "act"
                /\ stats.observes = iteration
                /\ batch' = <<>>
          /\ stats.dispatched' # stats.dispatched =>
                /\ pc = "dispatch"
                /\ stats.dispatched' = stats.dispatched + 1
                /\ batch' = Append(batch, batch'[Len(batch')])
                /\ batch'[Len(batch')].call = response[Len(batch) + 1]
                /\ response' = response /\ iteration' = iteration
                /\ stats.ok = iteration]_vars

C13_Witness ==
    /\ pc = "check"
    /\ iteration = 2
    /\ response = <<"home_badjson", "tap_E10">>
    /\ Len(batch) = 2
    /\ device = <<<<"input keyevent", 3>>, <<"input tap", 422, 890>>>>

\* C14: every tool call of a batch is dispatched with the executor holding the
\* (original, resized) sizes of the observation of the same iteration, and a
\* tap lands where those sizes put its cell; the executor's sizes change only
\* on the step that enters the for loop of _act, never during the batch.
C14_SizesAreThoseOfTheObservation ==
    /\ [](\A i \in 1..Len(batch) :
             /\ batch[i].orig = observation.original_size
             /\ batch[i].resz = observation.resized_size
             /\ (CallName(batch[i].call) = "tap" /\ ~batch[i].raised) =>
                    batch[i].dev =
                       <<<<"input tap",
                           cell_to_device_pixels(batch[i].args.cell, observation.original_size,
                                                 observation.resized_size)[1],
                           cell_to_device_pixels(batch[i].args.cell, observation.original_size,
                                                 observation.resized_size)[2]>>>>)
    /\ [][/\ pc = "dispatch" => UNCHANGED <<original_size, resized_size>>
          /\ <<original_size, resized_size>>' # <<original_size, resized_size>> =>
                (pc = "act" /\ pc' = "dispatch" /\ callIdx' = 1 /\ batch = <<>>)
          /\ (pc = "act" /\ pc' = "dispatch") =>
                /\ original_size' = observation.original_size
                /\ resized_size' = observation.resized_size]_vars

C14_Witness ==
    /\ pc = "check"
    /\ iteration = 2
    /\ observation.original_size = <<720, 1280>>
    /\ observation.resized_size = <<576, 1024>>
    /\ Len(batch) = 1
    /\ device = <<<<"input tap", 422, 890>>, <<"input tap", 225, 475>>>>

IsTerminalCall(k) == CallName(k) \in {"task_complete", "task_impossible"}

\* the sentinel-prefixed string of a terminal call
SentinelText(k) ==
    IF CallName(k) = "task_complete" THEN <<"TASK_COMPLETE:", " ">> \o CallArgs(k).summary
    ELSE <<"TASK_IMPOSSIBLE:", " ">> \o CallArgs(k).reason

\* C20: the dispatch of task_complete or task_impossible delivers no device
\* action and leaves the executor's sizes as they were; what it yields is the
\* sentinel-prefixed string, which is what the tool turn of the call holds.
C20_TerminalToolsTouchNothing ==
    /\ [](\A i \in 1..Len(batch) :
             IsTerminalCall(batch[i].call) =>
                /\ batch[i].dev = <<>>
                /\ ~batch[i].raised
                /\ ActTurns(message_history)[i].content.text = SentinelText(batch[i].call)
                /\ \A fails \in 0..1 :
                      execute(CallName(batch[i].call), batch[i].args, batch[i].orig,
                              batch[i].resz, fails)
                         = [raised |-> FALSE, value |-> SentinelText(batch[i].call),
                            dev |-> <<>>])
    /\ [][(pc = "dispatch" /\ IsTerminalCall(response[callIdx])) =>
             /\ device' = device
             /\ original_size' = original_size
             /\ resized_size' = resized_size
             /\ LastTurn(message_history').content.text = SentinelText(response[callIdx])]_vars

C20_Witness ==
    /\ pc = "check"
    /\ response = <<"tap_E10", "done">>
    /\ Len(batch) = 2
    /\ task_finished
    /\ device = <<<<"input tap", 422, 890>>>>
    /\ original_size = <<1080, 2400>>

\* the call of fn has been made and probe holds its result
Called(fn) == probe.fn = fn /\ probe.done

Abs(n) == IF n >= 0 THEN n ELSE -n

\* C15: for every column index n >= 0, the label produced for n is read back
\* as n by the base-26 column parse.
C15_LabelRoundTrip ==
    Called("get_column_label") => probe.out.parsed = probe.arg

\* C16 as stated: the pixel returned for a cell is the exact center of the
\* cell, x = (col + 0.5) * cell_size and y = (row - 1 + 0.5) * cell_size.
C16_ExactCenter ==
    Called("grid_cell_to_pixels") =>
        /\ 2 * probe.out[1] = (2 * probe.arg.cell.col + 1) * probe.arg.cell_size
        /\ 2 * probe.out[2] = (2 * probe.arg.cell.row - 1) * probe.arg.cell_size

\* C16, amended: the letters of the cell are read as the base-26 column
\* label (in either case) and its digits as the 1-based row, and the pixel
\* returned is the center of that cell cut off to integers: the exact center
\* when cell_size is even, and half a pixel nearer to zero (on each axis)
\* when it is odd; grid_cell_to_pixels("E10", 40) = (180, 380).
C16_CenterCutToIntegers ==
    Called("grid_cell_to_pixels") =>
        LET cx == (2 * probe.arg.cell.col + 1) * probe.arg.cell_size
            cy == (2 * probe.arg.cell.row - 1) * probe.arg.cell_size
        IN /\ probe.out # <<"ValueError">>
           /\ probe.arg.cell_size % 2 = 0 => (2 * probe.out[1] = cx /\ 2 * probe.out[2] = cy)
           /\ probe.arg.cell_size % 2 = 1 =>
                 /\ 2 * probe.out[1] = cx - 1
                 /\ 2 * probe.out[2] = IF cy >= 0 THEN cy - 1 ELSE cy + 1
           /\ (probe.arg.cell.cell \in {<<"E", "1", "0">>, <<"e", "1", "0">>}
               /\ probe.arg.cell_size = 40) => probe.out = <<180, 380>>

C16_Witness ==
    /\ Called("grid_cell_to_pixels")
    /\ probe.arg.cell.cell = <<"A", "E", "1", "2">>
    /\ probe.arg.cell_size = 3
    /\ probe.out = <<91, 34>>

\* C17: for a pixel (x, y) of the grid, the center of the cell that
\* pixels_to_grid_cell names is within half a cell of (x, y) on each axis.
C17_PixelRoundTrip ==
    Called("pixels_to_grid_cell") =>
        /\ probe.out.back # <<"ValueError">>
        /\ 2 * Abs(probe.out.back[1] - probe.arg.x) <= probe.arg.cell_size
        /\ 2 * Abs(probe.out.back[2] - probe.arg.y) <= probe.arg.cell_size

\* C18: with both sizes set, the device coordinate of a cell is the cell's
\* center in the resized image times original / resized, rounded to the
\* nearest integer (either neighbour is accepted on a tie).
C18_DeviceIsRounded ==
    (Called("cell_to_device_pixels") /\ probe.arg.sizes[1] # NoSize) =>
        LET display == grid_cell_to_pixels(probe.arg.cell.cell, CELL_SIZE)
            orig == probe.arg.sizes[1]
            resz == probe.arg.sizes[2]
        IN /\ 2 * Abs(probe.out[1] * resz[1] - display[1] * orig[1]) <= resz[1]
           /\ 2 * Abs(probe.out[2] * resz[2] - display[2] * orig[2]) <= resz[2]

\* the elements of a dump in document order, the root first
RECURSIVE Preorder(_)
Preorder(e) ==
    LET RECURSIVE OfChildren(_)
        OfChildren(i) ==
            IF i > Len(e.children) THEN <<>> ELSE Preorder(e.children[i]) \o OfChildren(i + 1)
    IN <<e>> \o OfChildren(1)

\* the element is clickable or scrollable and its bounding box is not empty
InteractiveWithBox(e) ==
    /\ e.clickable = "true" \/ e.scrollable = "true"
    /\ parse_bounds(e.bounds)[3] > parse_bounds(e.bounds)[1]
    /\ parse_bounds(e.bounds)[4] > parse_bounds(e.bounds)[2]

\* C19: the compactor lists exactly the elements below the root that are
\* clickable or scrollable and have a non-empty bounding box, one entry each,
\* in document order.
C19_ListsInteractiveElementsWithBox ==
    Called("parse_ui_hierarchy") =>
        LET listed == SelectSeq(Tail(Preorder(probe.arg)), InteractiveWithBox)
        IN probe.out.elements =
              [i \in 1..Len(listed) |->
                  ElementEntry(listed[i], PortraitScreen.raw,
                               resize_image(PortraitScreen.raw, max_size))]

----------------------------------------------------------------------------
(* Gestures and waits *)

\* the commands sent to the device among the actions of a dispatch
CommandsOf(actions) == SelectSeq(actions, IsDeviceCommand)

\* the taps a tap_sequence over cells sends when nothing fails, in list order
TapsOf(cells, orig, resz) ==
    [j \in 1..Len(cells) |->
        <<"input tap", cell_to_device_pixels(cells[j], orig, resz)[1],
          cell_to_device_pixels(cells[j], orig, resz)[2]>>]

\* C21: the taps a tap_sequence call delivered are the taps of its cells in
\* list order, up to the point where it stopped: all of them when it returned,
\* and then its tool turn holds "Tapped sequence: " and the cells joined by
\* " -> " in that order; when it raised (a tap failed, a cell was invalid, the
\* delay could not be slept) its tool turn holds the error text, and the batch
\* goes on: the calls after it in the response are dispatched all the same.
C21_TapSequenceInOrder ==
    /\ \A i \in 1..Len(batch) :
          CallName(batch[i].call) = "tap_sequence" =>
             LET cells == batch[i].args.cells
                 taps == CommandsOf(batch[i].dev)
                 turn == ActTurns(message_history)[i]
             IN /\ Len(taps) <= Len(cells)
                /\ taps = SubSeq(TapsOf(cells, batch[i].orig, batch[i].resz), 1, Len(taps))
                /\ turn.tool_call_id = <<iteration, i>>
                /\ ~batch[i].raised =>
                       /\ Len(taps) = Len(cells)
                       /\ turn.content.text = <<"Tapped sequence: ">> \o Join(cells, " -> ")
                /\ batch[i].raised =>
                       StartsWith(turn.content.text, <<"Error executing ", "tap_sequence", ": ">>)
    /\ \A i \in 1..Len(batch) : batch[i].call = response[i]
    /\ pc = "dispatch" => (callIdx = Len(batch) + 1 /\ callIdx <= Len(response))
    /\ (pc # "dispatch" /\ batch # <<>>) => Len(batch) = Len(response)

\* a sequence whose second tap failed on the device, followed by a sequence
\* that went through
C21_Witness ==
    /\ pc = "check"
    /\ Len(batch) = 2
    /\ batch[1].call = "seq_E10_B3" /\ batch[1].raised
    /\ batch[1].dev = <<<<"input tap", 422, 890>>, <<"sleep", 500>>>>
    /\ batch[2].call = "seq_E10_B3" /\ ~batch[2].raised
    /\ batch[2].dev = <<<<"input tap", 422, 890>>, <<"sleep", 500>>, <<"input tap", 140, 234>>>>
    /\ LastTurn(message_history).content.text
          = <<"Tapped sequence: ", "E", "1", "0", " -> ", "b", "3">>

\* a text that reads as a decimal number
NumericLooking(text) == IntTextValid(text) \/ FloatTextValid(text)

\* the number a numeric-looking text stands for
NumberOf(text) ==
    IF Find(text, ".") # 0 THEN FloatVal(FloatOfText(text))
    ELSE IntVal(Signed(text, ParseInt(Unsigned(text))))

\* C22: for every numeric parameter of the tool schema (tap_sequence.delay_ms,
\* swipe.duration_ms, wait.seconds) the handler is called with the number a
\* numeric-looking string stands for, and with the value as it was sent
\* otherwise; so no tap_sequence stops on a delay that was sent as numeric
\* text, and the arguments recorded for the call are those that were decoded.
C22_SchemaNumbersAreCoerced ==
    \A i \in 1..Len(batch) :
       LET name == CallName(batch[i].call)
           args == batch[i].args
           passed == coerce_arguments(name, args)
       IN /\ args = DecodeArguments(batch[i].call)
          /\ DOMAIN passed = DOMAIN args
          /\ \A q \in DOMAIN args :
                IF q \in SchemaNumericParams(name) /\ args[q].type = "str"
                   /\ NumericLooking(args[q].text)
                THEN passed[q] = NumberOf(args[q].text)
                ELSE passed[q] = args[q]
          /\ (name = "tap_sequence" /\ "delay_ms" \in DOMAIN args
                  /\ NumericLooking(args.delay_ms.text)) =>
                ActTurns(message_history)[i].content.text
                   # ErrorText("tap_sequence",
                               <<"unsupported operand type(s) for /: 'str' and 'int'">>)

\* a cell text without a letter, or without a digit
LacksPart(cell) ==
    \/ \A j \in 1..Len(cell) : ~IsAlpha(cell[j])
    \/ \A j \in 1..Len(cell) : ~IsDigit(cell[j])

\* the cell arguments of a tap or a swipe, in the order the handler converts them
CellArguments(name, args) ==
    IF name = "tap" THEN <<args.cell>> ELSE <<args.start_cell, args.end_cell>>

\* C23: a tap or a swipe with a cell argument that lacks its letter part or
\* its digit part raises the invalid-cell-format ValueError naming the first
\* such cell, with no command sent to the device; the call gets its tool turn
\* with that error text, the calls after it are dispatched all the same, and
\* the run goes on with the next iteration (it ends only by returning).
C23_InvalidCellFailsTheCallOnly ==
    /\ \A i \in 1..Len(batch) :
          LET name == CallName(batch[i].call)
              args == batch[i].args
          IN (name \in {"tap", "swipe"} /\ ArgsBind(name, args)
                 /\ \E j \in 1..Len(CellArguments(name, args)) :
                        LacksPart(CellArguments(name, args)[j])) =>
                LET cells == CellArguments(name, args)
                    first == CHOOSE j \in 1..Len(cells) :
                                 LacksPart(cells[j]) /\ \A m \in 1..(j - 1) : ~LacksPart(cells[m])
                IN /\ batch[i].raised
                   /\ batch[i].dev = <<>>
                   /\ ActTurns(message_history)[i] =
                          ToolResultTurn(<<iteration, i>>,
                              <<"Error executing ", name, ": ", "Invalid cell format: ">>
                                 \o cells[first]
                                 \o <<". Expected format like 'A1', 'E10', etc.">>)
                   /\ pc \in {"dispatch", "check", "loop", "done"}
                   /\ pc = "done" => outcome = "returned"
                   /\ pc = "loop" => ~task_finished
    /\ \A i \in 1..Len(batch) : batch[i].call = response[i]
    /\ pc = "dispatch" => (callIdx = Len(batch) + 1 /\ callIdx <= Len(response))
    /\ (pc # "dispatch" /\ batch # <<>>) => Len(batch) = Len(response)

\* a swipe to the cell "X" and a tap on the cell "10" failed, the loop is
\* about to observe again, and the device has received nothing
C23_Witness ==
    /\ pc = "loop"
    /\ iteration < max_iterations
    /\ Len(batch) = 2
    /\ batch[1].call = "swipe_E10_X" /\ batch[1].raised
    /\ batch[2].call = "tap_10" /\ batch[2].raised
    /\ device = <<>>

----------------------------------------------------------------------------
(* Observation without a hierarchy *)

\* the last user turn of the window
LastUserTurn(h) == h[MaxOf({i \in 1..Len(h) : h[i].role = "user"})]

\* _think has appended the vision message and has not yet pruned the window
JustBuilt == pc = "attempt" /\ attempt = 0 /\ events = <<>>

\* C24: when get_ui_hierarchy() raises or its output is no XML, the
\* observation is made all the same (the compactor gives the text "Error
\* parsing UI hierarchy: ..." for the garbled dump, nothing is raised), the
\* iteration goes on to Think, and the user turn Think builds (which is the
\* one sent to the provider when the image cap is at least one) holds the
\* screenshot and no element list: no hierarchy section at all after a failed
\* capture, a section holding only the parse-error text after a failed parse.
C24_HierarchyFailureIsNotFatal ==
    /\ [](stats.dump \in {"fail", "garbled"} =>
             /\ pc \in {"think", "attempt", "act", "dispatch", "check", "loop", "done"}
             /\ observation.data_url # <<>>
             /\ stats.dump = "fail" => observation.ui_hierarchy = None
             /\ stats.dump = "garbled" =>
                    observation.ui_hierarchy
                       = <<"Error parsing UI hierarchy: ", "syntax error: line 1, column 0">>
             /\ \A window \in (IF JustBuilt THEN {message_history} ELSE {})
                              \cup (IF WindowIsCurrent /\ max_images >= 1 THEN {sent}
                                    ELSE {}) :
                    LET items == LastUserTurn(window).content.items
                        grid == GridText(observation.grid_cols, observation.grid_rows)
                    IN /\ Len(items) = 2
                       /\ items[2] = ImageItem(observation.data_url)
                       /\ stats.dump = "fail" =>
                              items[1].text = grid \o <<"\nWhat action should I take next?">>
                       /\ stats.dump = "garbled" =>
                              items[1].text
                                 = grid \o <<HierarchyHeader, "\n<fence>\n",
                                             "Error parsing UI hierarchy: ",
                                             "syntax error: line 1, column 0", "\n<fence>",
                                             "\nWhat action should I take next?">>)
    /\ [][(stats'.observes # stats.observes /\ stats'.dump \in {"fail", "garbled"}) =>
             /\ pc = "loop" /\ pc' = "think"
             /\ outcome' = "none"
             /\ iteration' = iteration + 1]_vars

\* the second iteration of a run observed a garbled dump after a failed dump,
\* and the provider has answered it
C24_Witness ==
    /\ pc = "act"
    /\ iteration = 2
    /\ stats.dump = "garbled"
    /\ max_images = 2
    /\ Len(message_history) = 6
    /\ message_history[3].content.items[1].text
          = <<"Current screen with ", "14", "x", "25", " grid (columns A-", "N",
              ", rows 1-", "25", ").", "\nWhat action should I take next?">>

----------------------------------------------------------------------------
(* Interrupts *)

\* C25: an interrupt ends the run only at the boundary between two
\* iterations (the loop head): an iteration that has begun is carried through
\* to the end of its Act before the interrupt takes effect.
C25_InterruptOnlyBetweenIterations ==
    [][(retval' = <<"KeyboardInterrupt">> /\ retval # <<"KeyboardInterrupt">>) =>
          pc = "loop"]_vars

----------------------------------------------------------------------------
(* The batch and the window *)

\* positions of the batch at which a terminal call returned its sentinel
FinishedAt(b) == {i \in 1..Len(b) : IsTerminalCall(b[i].call) /\ ~b[i].raised}

\* C26: a terminal call does not end the batch.  Once task_complete or
\* task_impossible has returned, the calls after it in the response are
\* dispatched like any other (a tap after it reaches the device) and each
\* gets its tool turn; run() returns from the check after _act, when every
\* call of the response has been dispatched, and no Observe follows.
C26_TerminalCheckAfterTheBatch ==
    /\ []((FinishedAt(batch) # {}) =>
             /\ task_finished
             /\ pc \in {"dispatch", "check", "done"}
             /\ pc = "dispatch" => (callIdx = Len(batch) + 1 /\ callIdx <= Len(response)
                                    /\ outcome = "none")
             /\ pc # "dispatch" => Len(batch) = Len(response)
             /\ Len(ActTurns(message_history)) = Len(batch)
             /\ \A j \in 1..Len(batch) :
                   /\ batch[j].call = response[j]
                   /\ ActTurns(message_history)[j].role = "tool"
                   /\ ActTurns(message_history)[j].tool_call_id = <<iteration, j>>
                   /\ (batch[j].call = "tap_E10" /\ ~batch[j].raised) =>
                          Len(batch[j].dev) = 1 /\ batch[j].dev[1][1] = "input tap")
    /\ [][/\ (task_finished /\ outcome' = "returned" /\ outcome = "none") =>
                (pc = "check" /\ Len(batch) = Len(response) /\ device' = device
                 /\ message_history' = message_history)
          /\ (stats'.observes # stats.observes) => ~task_finished
          /\ (task_finished /\ pc = "dispatch") =>
                (stats'.dispatched = stats.dispatched + 1
                 /\ pc' = (IF callIdx = Len(response) THEN "check" ELSE "dispatch"))]_vars

\* task_complete came first in the response, the tap after it reached the
\* device, and run() has returned the summary
C26_Witness ==
    /\ pc = "done"
    /\ outcome = "returned"
    /\ retval = <<"Opened settings">>
    /\ response = <<"done", "tap_E10">>
    /\ Len(batch) = 2
    /\ device = <<<<"input tap", 422, 890>>>>
    /\ LastTurn(message_history).content.text = <<"Tapped at (", "422", ", ", "890", ")">>

\* positions of the assistant turns of a window
AssistantAt(h) == {a \in 1..Len(h) : h[a].role = "assistant"}

\* how many tool calls of the assistant turn at position a have been
\* processed: all of them, unless _act is still at work on that turn
ProcessedOf(h, a) ==
    IF a = MaxOf(AssistantAt(h)) /\ pc = "act" THEN 0
    ELSE IF a = MaxOf(AssistantAt(h)) /\ pc = "dispatch" THEN callIdx - 1
    ELSE Len(h[a].tool_calls)

\* C27: every tool call the assistant turns of the window ask for has, once
\* it is processed, exactly one tool turn in the window under its id; the
\* tool turns of a response stand directly after its assistant turn, in the
\* order of the calls, and what follows them is the next user turn; the turn
\* holds the error text when the dispatch raised and the result when it did
\* not.
C27_OneToolTurnPerCall ==
    LET h == message_history IN
    /\ \A a \in AssistantAt(h) :
          LET k == Cardinality({b \in AssistantAt(h) : b <= a})
              n == Len(h[a].tool_calls)
              m == ProcessedOf(h, a)
          IN /\ a + m <= Len(h)
             /\ \A j \in 1..m :
                   /\ h[a + j].role = "tool"
                   /\ h[a + j].tool_call_id = <<k, j>>
                   /\ h[a + j].content.kind = "str"
             /\ \A j \in 1..n :
                   Cardinality({x \in 1..Len(h) :
                                   h[x].role = "tool" /\ h[x].tool_call_id = <<k, j>>})
                      = (IF j <= m THEN 1 ELSE 0)
             /\ a + m < Len(h) => h[a + m + 1].role = "user"
    /\ Cardinality({x \in 1..Len(h) : h[x].role = "tool"})
          = Cardinality({<<a, j>> \in AssistantAt(h) \X (1..MaxToolCalls) :
                            j <= ProcessedOf(h, a)})
    /\ \A j \in 1..Len(batch) :
          LET text == ActTurns(h)[j].content.text
              name == CallName(batch[j].call)
          IN /\ batch[j].raised <=> StartsWith(text, <<"Error executing ", name, ": ">>)
             /\ \E fails \in 0..1 :
                   LET r == execute(name, batch[j].args, batch[j].orig, batch[j].resz, fails)
                   IN /\ r.raised = batch[j].raised
                      /\ text = (IF r.raised THEN <<"Error executing ", name, ": ">> \o r.value
                                 ELSE r.value)

\* the second iteration has begun after a batch of two calls, the first of
\* which failed
C27_Witness ==
    /\ pc = "attempt"
    /\ iteration = 2
    /\ Len(message_history) = 7
    /\ message_history[4].tool_calls = <<"open_camera", "tap_E10">>
    /\ message_history[5].tool_call_id = <<1, 1>>
    /\ StartsWith(message_history[5].content.text, <<"Error executing ", "open_camera", ": ">>)
    /\ message_history[6].tool_call_id = <<1, 2>>
    /\ message_history[6].content.text = <<"Tapped at (", "422", ", ", "890", ")">>
    /\ message_history[7].role = "user"

\* the roles of the turns of a window, in order
Roles(h) == [i \in 1..Len(h) |-> h[i].role]

\* how many turns of a window have the role
CountRole(h, role) == Cardinality({i \in 1..Len(h) : h[i].role = role})

\* C28: Think appends the observation turn once, with its image, before the
\* first attempt; a rate-limited attempt appends nothing, and the attempt that
\* succeeds appends the assistant turn and nothing else.  So at every point of
\* a run the window holds one assistant turn per successful Think and, next to
\* the objective turn, as many user turns, plus one while a Think is under way
\* (or has raised), however many attempts were retried.
C28_OneObservationTurnPerThink ==
    /\ [](pc # "idle" =>
             /\ CountRole(message_history, "assistant") = stats.ok
             /\ LET pending == CountRole(message_history, "user") - 1
                                   - CountRole(message_history, "assistant")
                IN /\ pending \in {0, 1}
                   /\ pc = "attempt" => pending = 1
                   /\ pc \in {"loop", "think", "act", "dispatch", "check"} => pending = 0
                   /\ (pc = "done" /\ outcome = "returned") => pending = 0)
    /\ [][/\ pc = "think" =>
                /\ Len(message_history') = Len(message_history) + 1
                /\ SubSeq(message_history', 1, Len(message_history)) = message_history
                /\ LastTurn(message_history').role = "user"
                /\ HasImage(LastTurn(message_history'))
          /\ (pc = "attempt" /\ pc' # "act") =>
                Roles(message_history') = Roles(message_history)
          /\ (pc = "attempt" /\ pc' = "act") =>
                /\ Roles(message_history') = Append(Roles(message_history), "assistant")
                /\ stats'.ok = stats.ok + 1]_vars

\* the provider answered on the third attempt of the second iteration
C28_Witness ==
    /\ pc = "act"
    /\ iteration = 2
    /\ attempt = 2
    /\ stats.calls = 4
    /\ Roles(message_history) = <<"system", "user", "user", "assistant", "user", "assistant">>
    /\ max_images = 2
    /\ HasImage(message_history[5])

----------------------------------------------------------------------------
(* The pruning pass: the window before it is message_history at an attempt,
   the window after it is what the attempt sends *)

\* the k most recent of the positions S
MostRecent(S, k) == {i \in S : Cardinality({j \in S : j > i}) < k}

\* the text of an image turn up to its hierarchy block, the whole text when it has none
TextBeforeHierarchy(msg) ==
    LET t == msg.content.items[1].text
    IN IF Find(t, HierarchyHeader) = 0 THEN t ELSE SubSeq(t, 1, Find(t, HierarchyHeader) - 1)

\* C29: after a pruning pass over a window with N observation turns and
\* max_images = k, the turns that carry an image are exactly the min(N, k)
\* most recent observation turns; every older observation turn is a plain
\* text turn without image payload, whose text is what survived of its text
\* (the part before the hierarchy block, no hierarchy text) followed by the
\* marker " [Screenshot removed for history management]".
C29_ImagesOnMostRecentTurnsOnly ==
    [][pc = "attempt" =>
          LET pre == message_history
              post == sent'
              obs == ObservationTurns(pre)
              keep == MostRecent(obs, max_images)
          IN /\ Len(post) = Len(pre)
             /\ Cardinality(keep)
                   = (IF Cardinality(obs) <= max_images THEN Cardinality(obs) ELSE max_images)
             /\ ImageTurns(post) = keep
             /\ \A i \in obs \ keep :
                   /\ post[i].role = "user"
                   /\ post[i].content.kind = "str"
                   /\ post[i].content.items = <<>>
                   /\ ~HasHierarchy(post[i].content.text)
                   /\ post[i].content.text[Len(post[i].content.text)] = RemovedMarker
                   /\ IF HasImage(pre[i])
                      THEN post[i].content.text = TextBeforeHierarchy(pre[i]) \o <<RemovedMarker>>
                      ELSE post[i] = pre[i]]_vars

\* the third observation has been sent under a cap of two images: the first
\* observation turn, stripped of its hierarchy one pass earlier, is now degraded
C29_Witness ==
    /\ pc = "act"
    /\ iteration = 3
    /\ max_images = 2
    /\ Cardinality(ImageTurns(sent)) = 2
    /\ sent[3].content.text = <<"Current screen with ", "11", "x", "25", " grid (columns A-",
                                "K", ", rows 1-", "25", ").", StrippedMarker, RemovedMarker>>

\* C30: a pruning pass leaves the window as long as it was, with the turns in
\* the order they had (same roles, same tool calls and tool-call ids at every
\* position), and leaves every turn that carries no image exactly as it was:
\* the system turn, the objective turn, assistant turns, tool turns and
\* observation turns degraded by an earlier pass.  What the pass produced is
\* what the window holds afterwards.
C30_PassKeepsOrderAndImagelessTurns ==
    [][pc = "attempt" =>
          LET pre == message_history
              post == sent'
          IN /\ Len(post) = Len(pre)
             /\ \A i \in 1..Len(pre) :
                   /\ post[i].role = pre[i].role
                   /\ post[i].tool_calls = pre[i].tool_calls
                   /\ post[i].tool_call_id = pre[i].tool_call_id
                   /\ ~HasImage(pre[i]) => post[i] = pre[i]
             /\ Len(message_history') >= Len(pre)
             /\ SubSeq(message_history', 1, Len(pre)) = post]_vars

\* the third pass of a run under a cap of one image went over a system turn,
\* the objective turn, a turn degraded by the second pass, assistant turns
\* and tool turns
C30_Witness ==
    /\ pc = "act"
    /\ iteration = 3
    /\ max_images = 1
    /\ Roles(sent) = <<"system", "user", "user", "assistant", "tool", "user", "assistant",
                       "tool", "user">>
    /\ sent[3].content.kind = "str"
    /\ sent[6].content.kind = "str"
    /\ ImageTurns(sent) = {9}

----------------------------------------------------------------------------
(* Repeated pruning passes *)

\* C31: the pruning pass is idempotent.  For every window the agent holds and
\* every cap, a second pass gives what the first pass gave; the pass an attempt
\* runs leaves a window that a further pass would not change, and the pass of
\* a retry (run on the window the pass of the attempt before left) changes
\* nothing: the retry sends the window the attempt before sent.
C31_PruningIsIdempotent ==
    /\ [](\A cap \in 0..MaxImages :
             \E once \in {manage_history(message_history, cap)} :
                manage_history(once, cap) = once)
    /\ [][pc = "attempt" =>
             /\ manage_history(sent', max_images) = sent'
             /\ attempt >= 1 => (sent' = sent /\ sent' = message_history)]_vars

\* the third attempt of the third iteration under a cap of two images: its pass
\* went over a window in which earlier passes had degraded one turn and
\* stripped another
C31_Witness ==
    /\ pc = "attempt" /\ attempt = 2
    /\ iteration = 3
    /\ max_images = 2
    /\ Len(RaisesOf(events, "RateLimitError")) = 2
    /\ sent = message_history
    /\ sent[3].content.kind = "str"
    /\ ImageTurns(sent) = {5, 7}
    /\ HierarchyTurns(sent) = {7}

----------------------------------------------------------------------------
(* Several runs of one Agent *)

\* a run after the first of the session is under way or over
LaterRun == budget.runs = 0 /\ pc # "idle"

\* C32: every call of run() starts from a fresh state.  The step that enters
\* run() leaves the window as exactly the system turn and the user turn that
\* states the new objective, with the finished flag and the result cleared,
\* whatever the window and the flags held.  In a later run of the same Agent
\* the window holds, after these two turns, only turns of that run (one
\* observation turn per iteration, one assistant turn per model call that
\* succeeded, one tool turn per dispatch); the flag and the result stay
\* cleared until a terminal call of that run is dispatched; and the run
\* returns a result only after such a dispatch, the max-iterations notice
\* otherwise.
C32_EveryRunStartsFresh ==
    /\ [][(pc' = "loop" /\ pc \in {"idle", "done"}) =>
             /\ message_history' = <<SystemTurn, ObjectiveTurn(objective')>>
             /\ task_finished' = FALSE
             /\ task_result' = None]_vars
    /\ [](LaterRun =>
             /\ SubSeq(message_history, 1, 2) = <<SystemTurn, ObjectiveTurn(objective)>>
             /\ CountRole(message_history, "system") = 1
             /\ CountRole(message_history, "user") - 1
                    = (IF pc = "think" \/ (RunRaised /\ retval = <<"AdbError">>)
                       THEN iteration - 1 ELSE iteration)
             /\ CountRole(message_history, "assistant") = stats.ok
             /\ CountRole(message_history, "tool") = stats.dispatched
             /\ (stats.dispatched = 0) => (~task_finished /\ task_result = None)
             /\ RunReturned =>
                    IF task_finished
                    THEN FinishedAt(batch) # {} /\ retval = <<"Opened settings">>
                    ELSE retval = MaxIterationsNotice(max_iterations))

\* the second run of a session was given another objective and ran out of
\* iterations without a tool call, after a first run that task_complete ended
C32_Witness ==
    /\ LaterRun /\ RunReturned
    /\ budget.calls = 1
    /\ max_iterations = 2
    /\ objective = <<"Open the camera">>
    /\ ~task_finished
    /\ retval = MaxIterationsNotice(2)
    /\ Len(message_history) = 6

----------------------------------------------------------------------------
(* Terminal sentinels *)

\* the text of a turn starts with one of the two sentinels
HasSentinel(turn) == turn.content.kind = "str" /\ IsTerminalResult(turn.content.text)

\* C33: a run ends in Complete or Impossible only through a task_complete or
\* task_impossible call that was dispatched and returned.  The finished flag
\* is set exactly when the batch of the iteration holds such a dispatch, the
\* tool turn of a dispatch starts with a sentinel exactly when it is such a
\* dispatch, and a run that returned anything but the max-iterations notice
\* has one in its last batch: neither the result of another tool (whatever
\* text its arguments carry) nor an error text (unknown tool, device failure,
\* arguments that are missing, unexpected or undecodable) is taken for a
\* sentinel, and a dispatch that raised leaves the flag and the result as
\* they were.
C33_OnlyTerminalCallsEndTheRun ==
    /\ [](task_finished <=> FinishedAt(batch) # {})
    /\ [](task_finished => pc \in {"dispatch", "check", "done"})
    /\ []((RunReturned /\ retval # MaxIterationsNotice(max_iterations)) => task_finished)
    /\ [](batch # <<>> =>
             \A i \in 1..Len(batch) :
                HasSentinel(ActTurns(message_history)[i]) <=> i \in FinishedAt(batch))
    /\ [][(pc = "dispatch" /\ LastTurn(batch').raised) =>
             (task_finished' = task_finished /\ task_result' = task_result)]_vars

\* an iteration whose batch typed a sentinel text and called a tool named
\* like the sentinel went on to the next iteration
C33_Witness ==
    /\ pc = "loop"
    /\ iteration < max_iterations
    /\ ~task_finished
    /\ Len(batch) = 2
    /\ batch[1].call = "type_sentinel" /\ ~batch[1].raised
    /\ batch[2].call = "sentinel_tool" /\ batch[2].raised
    /\ ActTurns(message_history)[1].content.text
           = <<"Entered text: '", "TASK_COMPLETE:", " ", "Opened settings", "'">>
    /\ ActTurns(message_history)[2].content.text
           = <<"Error executing ", "TASK_COMPLETE:", ": ", "Unknown tool: ", "TASK_COMPLETE:">>
    /\ device = <<<<"input text", "TASK_COMPLETE:", "%s", "Opened settings">>>>

----------------------------------------------------------------------------
(* Cells of the elements, cells of the taps *)

\* the least index i >= 0 whose cell center is at or after v scaled, and the
\* number of indices whose cell center is before v scaled (v in raw pixels)
FirstCenterFrom(v, original, resized, cell_size) ==
    CHOOSE i \in 0..(MaxColumn + 1) :
        /\ (2 * i + 1) * cell_size * original >= 2 * v * resized
        /\ \A j \in 0..(i - 1) : (2 * j + 1) * cell_size * original < 2 * v * resized

CentersBefore(v, original, resized, cell_size) ==
    Cardinality({i \in 0..(MaxColumn + 1) :
                    (2 * i + 1) * cell_size * original < 2 * v * resized})

\* the cell range written for the indices
RangeText(start_col, start_row, end_col, end_row) ==
    IF start_col = end_col /\ start_row = end_row
    THEN <<"[">> \o CellOf(start_col, start_row + 1) \o <<"]">>
    ELSE <<"[">> \o CellOf(start_col, start_row + 1) \o <<",">>
            \o CellOf(end_col, end_row + 1) \o <<"]">>

\* C34: bounds_to_cell_info follows the two rounding rules.  The cell range
\* starts at the first cell whose center is not before the scaled minimum,
\* start = ceil(min / cell_size - 0.5), and ends at the last cell whose center
\* is before the scaled maximum, end = ceil(max / cell_size - 0.5) - 1, or at
\* start when that is less; the click cell is the cell that holds the raw
\* center scaled once, floor(center * scale / cell_size).  The result depends
\* on the bounds and the sizes only, and for "[0,42][1080,177]" on a 1080x2400
\* screen shown at 460x1024 with 40-pixel cells it is [A1,K2] and F2.
C34_CellRangeAndClickCell ==
    Called("bounds_to_cell_info") =>
        LET box == probe.arg.box
            o == probe.arg.screen.raw
            r == probe.arg.screen.resized
            start_col == FirstCenterFrom(box[1], o[1], r[1], CELL_SIZE)
            start_row == FirstCenterFrom(box[2], o[2], r[2], CELL_SIZE)
            end_col == Max(CentersBefore(box[3], o[1], r[1], CELL_SIZE) - 1, start_col)
            end_row == Max(CentersBefore(box[4], o[2], r[2], CELL_SIZE) - 1, start_row)
            click_col == CHOOSE i \in 0..MaxColumn :
                            /\ 2 * i * CELL_SIZE * o[1] <= (box[1] + box[3]) * r[1]
                            /\ (box[1] + box[3]) * r[1] < 2 * (i + 1) * CELL_SIZE * o[1]
            click_row == CHOOSE i \in 0..MaxColumn :
                            /\ 2 * i * CELL_SIZE * o[2] <= (box[2] + box[4]) * r[2]
                            /\ (box[2] + box[4]) * r[2] < 2 * (i + 1) * CELL_SIZE * o[2]
        IN /\ probe.out.bound = RangeText(start_col, start_row, end_col, end_row)
           /\ probe.out.click = CellOf(click_col, click_row + 1)
           /\ probe.out = bounds_to_cell_info(probe.arg.bounds, o, r, CELL_SIZE)
           /\ (probe.arg.bounds = BoundsText(0, 42, 1080, 177) /\ o = <<1080, 2400>>) =>
                 /\ r = <<460, 1024>>
                 /\ probe.out.bound = <<"[", "A", "1", ",", "K", "2", "]">>
                 /\ probe.out.click = <<"F", "2">>

C34_Witness ==
    /\ Called("bounds_to_cell_info")
    /\ probe.arg.bounds = <<"[", 0, ",", 42, "]", "[", 1080, ",", 177, "]">>
    /\ probe.arg.screen.raw = <<1080, 2400>>
    /\ probe.arg.screen.resized = <<460, 1024>>
    /\ probe.out = [bound |-> <<"[", "A", "1", ",", "K", "2", "]">>, click |-> <<"F", "2">>]

\* the column index and the row of a cell the compactor reports
ReportedColumn(cell) == ColumnIndex(AlphaPart(cell))
ReportedRow(cell) == ParseInt(DigitPart(cell))

\* C35: the click cell reported for an element whose box lies inside the raw
\* screen lies inside the grid announced for the observation: its column
\* index is below cols = floor(display width / cell size), its row is at
\* most rows = floor(display height / cell size).
C35_ClickCellInsideTheGrid ==
    Called("bounds_to_cell_info") =>
        /\ ReportedColumn(probe.out.click) < probe.arg.screen.cols
        /\ ReportedRow(probe.out.click) <= probe.arg.screen.rows

\* the display pixel of a device pixel: the scale of bounds_to_cell_info,
\* resized / original, cut to an integer
ScaleToDisplay(v, original, resized) == (v * resized) \div original

\* C36: within one observation (raw size at least the display size) the two
\* resolutions address the same cells: the device pixel that tap(c) sends,
\* scaled back to the display and floor-divided by the cell size, is c again,
\* for every cell c of the grid of the observation (and of the strip of the
\* image beyond its last column and row).
C36_TapLandsInItsCell ==
    Called("tap") =>
        /\ probe.arg.screen.raw[1] >= probe.arg.screen.resized[1]
        /\ probe.arg.screen.raw[2] >= probe.arg.screen.resized[2]
        /\ probe.out[1] = "input tap"
        /\ pixels_to_grid_cell(
               ScaleToDisplay(probe.out[2], probe.arg.screen.raw[1], probe.arg.screen.resized[1]),
               ScaleToDisplay(probe.out[3], probe.arg.screen.raw[2], probe.arg.screen.resized[2]),
               CELL_SIZE) = probe.arg.cell

\* the tap of K25, the last cell of the 11x25 grid of a 1080x2400 screen
C36_Witness ==
    /\ Called("tap")
    /\ probe.arg.cell = <<"K", "2", "5">>
    /\ probe.arg.screen.raw = <<1080, 2400>>
    /\ probe.arg.screen.cols = 11 /\ probe.arg.screen.rows = 25
    /\ probe.out = <<"input tap", 986, 2296>>

----------------------------------------------------------------------------
(* A tap sequence that fails part of the way *)

\* the text has the fragment t
Mentions(text, t) == \E j \in 1..Len(text) : text[j] = t

\* C37: tap_sequence checks nothing before it starts and takes nothing back.
\* When its k-th cell fails (its format is invalid, or the device fails on its
\* tap) the taps of the cells 1..k-1 have been delivered, in order, no tap of
\* a later cell is delivered, and the call yields the error, not a result
\* string.  When it returns, its n cells were tapped in order with a delay
\* after each tap but the last: n taps and n - 1 delays, and no device action
\* at all for an empty list.
C37_TapSequenceStopsAtTheFailure ==
    \A i \in 1..Len(batch) :
        CallName(batch[i].call) = "tap_sequence" =>
           LET cells == batch[i].args.cells
               n == Len(cells)
               dev == batch[i].dev
               taps == CommandsOf(dev)
               k == Len(taps) + 1
               text == ActTurns(message_history)[i].content.text
           IN /\ taps = SubSeq(TapsOf(cells, batch[i].orig, batch[i].resz), 1, Len(taps))
              /\ \A j \in 1..Len(dev) : (dev[j][1] = "sleep") <=> (j % 2 = 0)
              /\ ~batch[i].raised =>
                    /\ Len(taps) = n
                    /\ Len(dev) - Len(taps) = Max(n - 1, 0)
                    /\ n = 0 => dev = <<>>
                    /\ n > 0 => dev[Len(dev)][1] = "input tap"
                    /\ \A j \in 1..n : CellFormatValid(cells[j])
                    /\ text = <<"Tapped sequence: ">> \o Join(cells, " -> ")
              /\ batch[i].raised =>
                    /\ StartsWith(text, <<"Error executing ", "tap_sequence", ": ">>)
                    /\ ~Mentions(text, "Tapped sequence: ")
              /\ (batch[i].raised /\ Mentions(text, "Invalid cell format: ")) =>
                    /\ k <= n
                    /\ ~CellFormatValid(cells[k])
                    /\ \A j \in 1..(k - 1) : CellFormatValid(cells[j])
                    /\ text = <<"Error executing ", "tap_sequence", ": ", "Invalid cell format: ">>
                                 \o cells[k] \o <<". Expected format like 'A1', 'E10', etc.">>
              /\ (batch[i].raised /\ Mentions(text, "adb: device offline")) =>
                    /\ k <= n
                    /\ \A j \in 1..k : CellFormatValid(cells[j])

\* a sequence whose third cell is invalid stopped after two taps, and an empty
\* sequence after it returned without touching the device
C37_Witness ==
    /\ pc = "check"
    /\ Len(batch) = 2
    /\ batch[1].call = "seq_E10_B3_X" /\ batch[1].raised
    /\ batch[1].dev = <<<<"input tap", 422, 890>>, <<"sleep", 500>>, <<"input tap", 140, 234>>,
                        <<"sleep", 500>>>>
    /\ batch[2].call = "seq_empty" /\ ~batch[2].raised
    /\ batch[2].dev = <<>>
    /\ CommandsOf(device) = <<<<"input tap", 422, 890>>, <<"input tap", 140, 234>>>>
    /\ LastTurn(message_history).content.text = <<"Tapped sequence: ">>


----------------------------------------------------------------------------
\* C38: in the MCP server and in the CLI's control command a call is reported
\* as "Unknown tool" / "Unknown command" only when its name is none of the
\* dispatcher's tool names, and a known tool that failed is reported as an
\* execution error of that tool ("Error executing <name>: ..." by the server,
\* "Error: ..." by the CLI).
C38_UnknownOnlyForUnknownNames ==
    mcp.running =>
        \A i \in DOMAIN mcp.replies :
            LET r == mcp.replies[i]
            IN /\ r.text[1] \in {"Unknown tool: ", "Unknown command: "}
                     => r.name \notin ToolNames
               /\ (r.failed /\ r.name \in ToolNames)
                     => StartsWith(r.text, IF r.via = "mcp"
                                           THEN <<"Error executing ", r.name, ": ">>
                                           ELSE <<"Error: ">>)

\* a conversion worked with a matched pair: all four numbers come from the
\* sizes of one capture, or the original ones from the query and the resized
\* ones from the literal that call_tool stores with it
MatchedPair(c) ==
    \/ /\ c.ox.kind = "capture"
       /\ c.rx = c.ox /\ c.oy = c.ox /\ c.ry = c.ox
    \/ /\ c.ox = FromQuery /\ c.oy = FromQuery
       /\ c.rx = FromDefault /\ c.ry = FromDefault

\* C39: in the MCP server every cell-to-device conversion that scales uses a
\* matched pair, original_size and resized_size of the same capture or both of
\* the initial default, under any interleaving of get_screen and action calls.
C39_ConversionsUseAMatchedPair ==
    mcp.running => (mcp.conv.made /\ mcp.conv.scaled => MatchedPair(mcp.conv))

====
